---- MODULE Spec2Model ----
(***************************************************************************)
(* crdmcp: the in-memory resource index (CRD definitions, sample manifests *)
(* and instruction documents) and the four query tools that read it.       *)
(*                                                                         *)
(* Strings are sequences of one-character strings, so that toLowerCase,    *)
(* includes, localeCompare and the edit distance are computed and not      *)
(* assumed.  An optional value (undefined in the source) is the empty      *)
(* tuple None, a present value v is the one-element tuple Some(v).         *)
(***************************************************************************)
EXTENDS Integers, Sequences, FiniteSets, TLC

VARIABLES
  phase,         \* "loading" while DataLoader.loadAllData runs, then "ready"
  crds,          \* LoadedData.crds: Map in insertion order, <<[key, crd]>>
  samples,       \* LoadedData.samples: Map kind -> SampleManifest[], <<[kind, list]>>
  instructions,  \* LoadedData.instructions: InstructionDocument[]
  warnings,      \* warnings collected by CRDLoader.loadCRDs
  loaded,        \* the parsed documents the loaders have already consumed
  built,         \* the index as it was when the ToolRegistry was constructed
  call,          \* the last tool call: [tool, args]
  result,        \* the ToolResult of the last tool call
  reload         \* watch mode: the data a reload is loading or has loaded

vars == <<phase, crds, samples, instructions, warnings, loaded, built, call, result, reload>>

----------------------------------------------------------------------------
(* Bounds of the model *)

MaxFiles == 3     \* files in the data directory
MaxCrds == 2      \* of which CRD files
MaxSamples == 2   \* of which sample files
MaxDocs == 2      \* of which instruction files
MaxLimit == 2     \* largest limit argument tried
MaxLen == 3       \* longest string compared for similarity

----------------------------------------------------------------------------
(* Optional values *)

None == <<>>
Some(v) == <<v>>
IsSome(o) == Len(o) = 1
Val(o) == o[1]

(* JavaScript truthiness of an optional string: undefined and "" are falsy *)
Truthy(o) == IsSome(o) /\ Len(Val(o)) > 0

(* JavaScript truthiness of an optional number: undefined and 0 are falsy *)
OrZero(o) == IF IsSome(o) THEN Val(o) ELSE 0

----------------------------------------------------------------------------
(* Strings *)

Min2(a, b) == IF a < b THEN a ELSE b
Min3(a, b, c) == Min2(a, Min2(b, c))

LowerChar(c) ==
  CASE c = "A" -> "a" [] c = "B" -> "b" [] c = "C" -> "c" [] c = "D" -> "d"
    [] c = "E" -> "e" [] c = "F" -> "f" [] c = "G" -> "g" [] c = "H" -> "h"
    [] c = "I" -> "i" [] c = "J" -> "j" [] c = "K" -> "k" [] c = "L" -> "l"
    [] c = "M" -> "m" [] c = "N" -> "n" [] c = "O" -> "o" [] c = "P" -> "p"
    [] c = "Q" -> "q" [] c = "R" -> "r" [] c = "S" -> "s" [] c = "T" -> "t"
    [] c = "U" -> "u" [] c = "V" -> "v" [] c = "W" -> "w" [] c = "X" -> "x"
    [] c = "Y" -> "y" [] c = "Z" -> "z" [] OTHER -> c

ToLowerCase(s) == [i \in 1..Len(s) |-> LowerChar(s[i])]

(* String.prototype.includes: sub occurs in s as a contiguous substring *)
Includes(s, sub) ==
  \E i \in 0..(Len(s) - Len(sub)) :
    \A j \in 1..Len(sub) : s[i + j] = sub[j]

(* Array.prototype.includes / some / filter on sequences *)
Has(seq, x) == \E i \in 1..Len(seq) : seq[i] = x

(* Array.prototype.filter: the kept elements in their original order *)
Filter(seq, Keep(_)) ==
  LET idx == {i \in 1..Len(seq) : Keep(seq[i])}
  IN  [k \in 1..Cardinality(idx) |->
         seq[CHOOSE i \in idx : Cardinality({j \in idx : j <= i}) = k]]

(* Array.prototype.slice(0, n) for n >= 0 *)
Slice(seq, n) == SubSeq(seq, 1, Min2(n, Len(seq)))

(* Array.prototype.sort with a comparator (stable since ES2019): element i  *)
(* lands behind every element that the comparator puts before it and behind *)
(* every earlier element the comparator ties it with.                       *)
SortBy(seq, Before(_, _)) ==
  LET pos(i) == 1 + Cardinality({j \in 1..Len(seq) :
                     \/ Before(seq[j], seq[i])
                     \/ /\ ~Before(seq[i], seq[j])
                        /\ j < i})
  IN  [p \in 1..Len(seq) |-> seq[CHOOSE i \in 1..Len(seq) : pos(i) = p]]

(* String.prototype.localeCompare(b) < 0 for strings of letters: the        *)
(* collation first compares the letters alphabetically regardless of case   *)
(* (a proper prefix sorts first) and only between strings that differ in    *)
(* case alone does the lowercase letter come first.                         *)
CharRank(c) ==
  CASE c = "a" -> 1 [] c = "b" -> 2 [] c = "c" -> 3 [] c = "d" -> 4
    [] c = "e" -> 5 [] c = "f" -> 6 [] c = "g" -> 7 [] c = "h" -> 8
    [] c = "i" -> 9 [] c = "j" -> 10 [] c = "k" -> 11 [] c = "l" -> 12
    [] c = "m" -> 13 [] c = "n" -> 14 [] c = "o" -> 15 [] c = "p" -> 16
    [] c = "q" -> 17 [] c = "r" -> 18 [] c = "s" -> 19 [] c = "t" -> 20
    [] c = "u" -> 21 [] c = "v" -> 22 [] c = "w" -> 23 [] c = "x" -> 24
    [] c = "y" -> 25 [] c = "z" -> 26 [] OTHER -> 0

RECURSIVE LexLess(_, _)
LexLess(a, b) ==
  IF b = <<>> THEN FALSE
  ELSE IF a = <<>> THEN TRUE
  ELSE IF Head(a) # Head(b) THEN Head(a) < Head(b)
  ELSE LexLess(Tail(a), Tail(b))

LocaleLess(a, b) ==
  LET pa == [i \in 1..Len(a) |-> CharRank(LowerChar(a[i]))]
      pb == [i \in 1..Len(b) |-> CharRank(LowerChar(b[i]))]
      ca == [i \in 1..Len(a) |-> IF LowerChar(a[i]) = a[i] THEN 0 ELSE 1]
      cb == [i \in 1..Len(b) |-> IF LowerChar(b[i]) = b[i] THEN 0 ELSE 1]
  IN  IF pa # pb THEN LexLess(pa, pb) ELSE LexLess(ca, cb)

(* levenshteinDistance: the matrix recurrence, unit cost for insertion,     *)
(* deletion and substitution                                                *)
RECURSIVE levenshteinDistance(_, _)
levenshteinDistance(str1, str2) ==
  IF Len(str1) = 0 THEN Len(str2)
  ELSE IF Len(str2) = 0 THEN Len(str1)
  ELSE LET i == Len(str1)
           j == Len(str2)
           indicator == IF str1[i] = str2[j] THEN 0 ELSE 1
       IN  Min3(levenshteinDistance(SubSeq(str1, 1, i - 1), str2) + 1,
                levenshteinDistance(str1, SubSeq(str2, 1, j - 1)) + 1,
                levenshteinDistance(SubSeq(str1, 1, i - 1), SubSeq(str2, 1, j - 1)) + indicator)

(* a quotient over the length of the first string instead of the longer one *)
calculateSimilarity_OverFirst(str1, str2) ==
  IF Len(str1) = 0 /\ Len(str2) = 0 THEN <<1, 1>>
  ELSE <<Len(str1) - levenshteinDistance(str1, str2), Len(str1)>>

(* calculateSimilarity: the quotient (longer.length - distance) /           *)
(* longer.length as the fraction <<numerator, denominator>>; 1.0 is <<1,1>> *)
calculateSimilarity(str1, str2) ==
  LET longer == IF Len(str1) > Len(str2) THEN str1 ELSE str2
      shorter == IF Len(str1) > Len(str2) THEN str2 ELSE str1
  IN  IF Len(longer) = 0 THEN <<1, 1>>
      ELSE <<Len(longer) - levenshteinDistance(longer, shorter), Len(longer)>>

(* comparison of two such quotients, and of a quotient with 0.3 *)
SimGreater(a, b) == a[1] * b[2] > b[1] * a[2]
(* a threshold that lets 0.3 itself through *)
AboveThreshold_Inclusive(a) == a[1] * 10 >= 3 * a[2]

AboveThreshold(a) == a[1] * 10 > 3 * a[2]
SimMax(a, b) == IF SimGreater(b, a) THEN b ELSE a

----------------------------------------------------------------------------
(* helpers.ts *)

generateResourceKey(group, kind) == group \o <<"/">> \o kind

DatabasePatterns ==
  {<<"r", "e", "d", "i", "s">>,
   <<"p", "o", "s", "t", "g", "r", "e", "s">>,
   <<"m", "y", "s", "q", "l">>,
   <<"m", "o", "n", "g", "o", "d", "b">>,
   <<"d", "a", "t", "a", "b", "a", "s", "e">>,
   <<"d", "b">>}

MessagingPatterns ==
  {<<"k", "a", "f", "k", "a">>,
   <<"r", "a", "b", "b", "i", "t">>,
   <<"q", "u", "e", "u", "e">>,
   <<"t", "o", "p", "i", "c">>,
   <<"s", "t", "r", "e", "a", "m">>}

ServicePatterns ==
  {<<"s", "e", "r", "v", "i", "c", "e">>,
   <<"a", "p", "i">>,
   <<"g", "a", "t", "e", "w", "a", "y">>,
   <<"p", "r", "o", "x", "y">>}

StoragePatterns ==
  {<<"s", "t", "o", "r", "a", "g", "e">>,
   <<"v", "o", "l", "u", "m", "e">>,
   <<"b", "u", "c", "k", "e", "t">>}

NetworkingPatterns ==
  {<<"n", "e", "t", "w", "o", "r", "k">>,
   <<"i", "n", "g", "r", "e", "s", "s">>,
   <<"r", "o", "u", "t", "e">>}

SecurityPatterns ==
  {<<"p", "o", "l", "i", "c", "y">>,
   <<"r", "b", "a", "c">>,
   <<"a", "u", "t", "h">>,
   <<"c", "e", "r", "t">>}

(* inferResourceCategory: the first pattern group that the lowercased kind *)
(* contains names the category; undefined when none does                   *)
inferResourceCategory(kind) ==
  LET lowerKind == ToLowerCase(kind)
      hit(patterns) == \E pat \in patterns : Includes(lowerKind, pat)
  IN  IF hit(DatabasePatterns) THEN Some(<<"d", "a", "t", "a", "b", "a", "s", "e">>)
      ELSE IF hit(MessagingPatterns) THEN Some(<<"m", "e", "s", "s", "a", "g", "i", "n", "g">>)
      ELSE IF hit(ServicePatterns) THEN Some(<<"s", "e", "r", "v", "i", "c", "e">>)
      ELSE IF hit(StoragePatterns) THEN Some(<<"s", "t", "o", "r", "a", "g", "e">>)
      ELSE IF hit(NetworkingPatterns) THEN Some(<<"n", "e", "t", "w", "o", "r", "k", "i", "n", "g">>)
      ELSE IF hit(SecurityPatterns) THEN Some(<<"s", "e", "c", "u", "r", "i", "t", "y">>)
    ELSE None

(* generateDescription for a name of one word: first letter upper case,    *)
(* the rest lower case                                                      *)
UpperChar(c) ==
  CASE c = "a" -> "A" [] c = "b" -> "B" [] c = "c" -> "C" [] c = "d" -> "D"
    [] c = "e" -> "E" [] c = "f" -> "F" [] c = "g" -> "G" [] c = "h" -> "H"
    [] c = "i" -> "I" [] c = "j" -> "J" [] c = "k" -> "K" [] c = "l" -> "L"
    [] c = "m" -> "M" [] c = "n" -> "N" [] c = "o" -> "O" [] c = "p" -> "P"
    [] c = "q" -> "Q" [] c = "r" -> "R" [] c = "s" -> "S" [] c = "t" -> "T"
    [] c = "u" -> "U" [] c = "v" -> "V" [] c = "w" -> "W" [] c = "x" -> "X"
    [] c = "y" -> "Y" [] c = "z" -> "Z" [] OTHER -> c

generateDescription(fileName) ==
  IF fileName = <<>> THEN <<>>
  ELSE <<UpperChar(Head(fileName))>> \o ToLowerCase(Tail(fileName))

----------------------------------------------------------------------------
(* The parsed documents the loaders can find in the data directory.  Each   *)
(* document stands for one file, which a loader reads at most once.         *)

(* CustomResourceDefinition documents: spec.group, spec.names, spec.scope   *)
CrdDocs ==
  { [filePath |-> <<"c", "1">>, group |-> <<"x">>, kind |-> <<"D", "b">>, plural |-> <<"d", "b", "s">>,
     singular |-> None, shortNames |-> Some(<<<<"d">>>>), scope |-> "Namespaced", versions |-> <<<<"v", "1">>>>],
    [filePath |-> <<"c", "2">>, group |-> <<"y">>, kind |-> <<"D", "b">>, plural |-> <<"d", "b", "z">>,
     singular |-> None, shortNames |-> None, scope |-> "Cluster", versions |-> <<<<"v", "1">>>>],
    [filePath |-> <<"c", "3">>, group |-> <<"x">>, kind |-> <<"D", "b">>, plural |-> <<"d", "b", "x">>,
     singular |-> None, shortNames |-> Some(<<<<"d", "x">>>>), scope |-> "Cluster", versions |-> <<<<"v", "1">>>>],
    [filePath |-> <<"c", "4">>, group |-> <<"x">>, kind |-> <<"A", "p", "i">>, plural |-> <<"a", "p", "i", "s">>,
     singular |-> None, shortNames |-> Some(<<<<"a", "p">>>>), scope |-> "Namespaced", versions |-> <<<<"v", "1">>>>],
    [filePath |-> <<"c", "5">>, group |-> <<"y">>, kind |-> <<"A", "b">>, plural |-> <<"a", "b", "s">>,
     singular |-> None, shortNames |-> None, scope |-> "Namespaced", versions |-> <<<<"v", "1">>>>] }

(* Sample manifests as SampleLoader.createSampleManifest returns them;      *)
(* content is the serialised manifest (JSON.stringify(sample.content))      *)
SampleDocs ==
  { [filePath |-> <<"s", "1">>, kind |-> <<"D", "b">>, complexity |-> "advanced", description |-> <<"a">>,
     tags |-> <<<<"p", "r", "o", "d">>>>, content |-> <<"D", "b", "A", "p", "i">>],
    [filePath |-> <<"s", "2">>, kind |-> <<"D", "b">>, complexity |-> "simple", description |-> <<"b">>,
     tags |-> <<<<"d", "e", "v">>>>, content |-> <<"D", "b">>],
    [filePath |-> <<"s", "3">>, kind |-> <<"D", "b">>, complexity |-> "simple", description |-> <<"a">>,
     tags |-> <<<<"p", "r", "o", "d">>, <<"h", "a">>>>, content |-> <<"D", "b">>],
    [filePath |-> <<"s", "4">>, kind |-> <<"A", "p", "i">>, complexity |-> "simple", description |-> <<"a">>,
     tags |-> <<>>, content |-> <<"A", "p", "i">>],
    [filePath |-> <<"s", "5">>, kind |-> <<"D", "b">>, complexity |-> "intermediate", description |-> <<"a">>,
     tags |-> <<<<"d", "e", "v">>>>, content |-> <<"D", "b">>] }

(* Instruction documents as InstructionLoader.createInstructionDocument     *)
(* returns them: the tags are lower case and hold the lowercased category   *)
InstructionDocs ==
  { [filePath |-> <<"i", "1">>, title |-> <<"o", "p", "s">>, content |-> <<"u", "s", "e", " ", "d", "b">>,
     frontmatter |-> [applicableCRDs |-> None, category |-> None, priority |-> Some(1)],
     detectedCRDs |-> <<>>, tags |-> <<<<"o", "p", "s">>>>],
    [filePath |-> <<"i", "2">>, title |-> <<"D", "b", " ", "g", "u", "i", "d", "e">>, content |-> <<"d", "b">>,
     frontmatter |-> [applicableCRDs |-> Some(<<<<"D", "b">>>>), category |-> Some(<<"d", "a", "t", "a", "b", "a", "s", "e">>), priority |-> None],
     detectedCRDs |-> <<>>, tags |-> <<<<"d", "a", "t", "a", "b", "a", "s", "e">>, <<"p", "r", "o", "d">>>>],
    [filePath |-> <<"i", "3">>, title |-> <<"D", "b", " ", "t", "i", "p", "s">>, content |-> <<"d", "b">>,
     frontmatter |-> [applicableCRDs |-> Some(<<<<"D", "b">>>>), category |-> Some(<<"d", "a", "t", "a", "b", "a", "s", "e">>), priority |-> Some(-1)],
     detectedCRDs |-> <<>>, tags |-> <<<<"d", "a", "t", "a", "b", "a", "s", "e">>, <<"p", "r", "o", "d">>, <<"h", "a">>>>],
    [filePath |-> <<"i", "4">>, title |-> <<"o", "p", "s", " ", "D", "b">>, content |-> <<"k", "i", "n", "d", ":", " ", "D", "b">>,
     frontmatter |-> [applicableCRDs |-> None, category |-> Some(<<"s", "e", "r", "v", "i", "c", "e">>), priority |-> Some(1)],
     detectedCRDs |-> <<<<"d", "b">>>>, tags |-> <<<<"s", "e", "r", "v", "i", "c", "e">>>>] }

CrdFiles == {d.filePath : d \in CrdDocs}
SampleFiles == {d.filePath : d \in SampleDocs}
InstructionFiles == {d.filePath : d \in InstructionDocs}

----------------------------------------------------------------------------
(* Map<string, V> in insertion order, as a sequence of entries *)

MapHas(map, key) == \E i \in 1..Len(map) : map[i].key = key
MapIndex(map, key) == CHOOSE i \in 1..Len(map) : map[i].key = key

(* Map.prototype.get: the value option *)
MapGet(map, key) == IF MapHas(map, key) THEN Some(map[MapIndex(map, key)].value) ELSE None

(* a map in which the first value stored under a key stays *)
MapSet_KeepFirst(map, key, value) ==
  IF MapHas(map, key) THEN map ELSE Append(map, [key |-> key, value |-> value])

(* Map.prototype.set: an existing key keeps its place and takes the new value *)
MapSet(map, key, value) ==
  IF MapHas(map, key)
  THEN [map EXCEPT ![MapIndex(map, key)] = [key |-> key, value |-> value]]
  ELSE Append(map, [key |-> key, value |-> value])

----------------------------------------------------------------------------
(* Loaders *)

(* CRDLoader.extractCRDMetadata, with extractDescription taking the         *)
(* description annotation and falling back to generateDescription(kind)     *)
extractCRDMetadata(doc) ==
  [group |-> doc.group, kind |-> doc.kind, plural |-> doc.plural,
   singular |-> doc.singular, shortNames |-> doc.shortNames,
   scope |-> doc.scope, versions |-> doc.versions, filePath |-> doc.filePath,
   description |-> IF "description" \in DOMAIN doc THEN Some(doc.description)
                   ELSE Some(generateDescription(doc.kind)),
   category |-> inferResourceCategory(doc.kind)]

NoCall == [tool |-> "none", args |-> <<>>]

(* no reload has been started: start.ts reloads only with --watch *)
NoReload ==
  [status |-> "idle", crds |-> <<>>, samples |-> <<>>, instructions |-> <<>>, loaded |-> {}]

NoResult == [success |-> FALSE, error |-> "none", data |-> <<>>, suggestions |-> <<>>]

Init ==
  /\ phase = "loading"
  /\ crds = <<>>
  /\ samples = <<>>
  /\ instructions = <<>>
  /\ warnings = <<>>
  /\ loaded = {}
  /\ built = [crds |-> <<>>, samples |-> <<>>, instructions |-> <<>>]
  /\ call = NoCall
  /\ result = NoResult
  /\ reload = NoReload

(* CRDLoader.loadCRDs, one document of the loop: a key already present is   *)
(* reported as a warning and overwritten                                    *)
LoadCRD(doc) ==
  /\ phase = "loading"
  /\ doc.filePath \notin loaded
  /\ Cardinality(loaded) < MaxFiles
  /\ Cardinality(loaded \cap CrdFiles) < MaxCrds
  /\ LET crdMetadata == extractCRDMetadata(doc)
         key == generateResourceKey(crdMetadata.group, crdMetadata.kind)
     IN  /\ warnings' = IF MapHas(crds, key)
                        THEN Append(warnings, [duplicate |-> key, filePath |-> doc.filePath])
                        ELSE warnings
         /\ crds' = MapSet(crds, key, crdMetadata)
  /\ loaded' = loaded \cup {doc.filePath}
  /\ UNCHANGED <<reload, phase, samples, instructions, built, call, result>>

(* SampleLoader.loadSamples, one document of the loop: the sample is pushed *)
(* onto the list of its kind, which is created on first use                 *)
LoadSample(sample) ==
  /\ phase = "loading"
  /\ sample.filePath \notin loaded
  /\ Cardinality(loaded) < MaxFiles
  /\ Cardinality(loaded \cap SampleFiles) < MaxSamples
  /\ LET kind == sample.kind
         list == IF MapHas(samples, kind) THEN Val(MapGet(samples, kind)) ELSE <<>>
     IN  samples' = MapSet(samples, kind, Append(list, sample))
  /\ loaded' = loaded \cup {sample.filePath}
  /\ UNCHANGED <<reload, phase, crds, instructions, warnings, built, call, result>>

(* InstructionLoader.loadInstructions, one file of the loop *)
LoadInstruction(instruction) ==
  /\ phase = "loading"
  /\ instruction.filePath \notin loaded
  /\ Cardinality(loaded) < MaxFiles
  /\ Cardinality(loaded \cap InstructionFiles) < MaxDocs
  /\ instructions' = Append(instructions, instruction)
  /\ loaded' = loaded \cup {instruction.filePath}
  /\ UNCHANGED <<reload, phase, crds, samples, warnings, built, call, result>>

(* DataLoader.loadAllData returns and the ToolRegistry is constructed over  *)
(* the loaded data                                                          *)
FinishLoad ==
  /\ phase = "loading"
  /\ phase' = "ready"
  /\ built' = [crds |-> crds, samples |-> samples, instructions |-> instructions]
  /\ UNCHANGED <<reload, crds, samples, instructions, warnings, loaded, call, result>>

----------------------------------------------------------------------------
(* BaseTool *)

(* a suggestion line: the fixed text it starts with and the names it lists *)
Suggestion(text, items) == [text |-> text, items |-> items]

success(data, suggestions) ==
  [success |-> TRUE, error |-> "none", data |-> data, suggestions |-> suggestions]

error(message, suggestions) ==
  [success |-> FALSE, error |-> message, data |-> <<>>, suggestions |-> suggestions]

(* BaseTool.findSimilarResources: the keys of the definitions whose kind,   *)
(* group or plural is more than 0.3 similar to the query, most similar      *)
(* first, at most limit of them                                             *)
findSimilarResources(map, query, limit) ==
  LET lowerQuery == ToLowerCase(query)
      maxSimilarity(crd) ==
        SimMax(SimMax(calculateSimilarity(lowerQuery, ToLowerCase(crd.kind)),
                      calculateSimilarity(lowerQuery, ToLowerCase(crd.group))),
               calculateSimilarity(lowerQuery, ToLowerCase(crd.plural)))
      scored == [i \in 1..Len(map) |->
                   [key |-> map[i].key, similarity |-> maxSimilarity(map[i].value)]]
      candidates == Filter(scored, LAMBDA c : AboveThreshold(c.similarity))
      sorted == SortBy(candidates, LAMBDA a, b : SimGreater(a.similarity, b.similarity))
      top == Slice(sorted, limit)
  IN  [i \in 1..Len(top) |-> top[i].key]

(* either string contains the other, ignoring case *)
OverlapsLower(a, b) ==
  \/ Includes(ToLowerCase(a), ToLowerCase(b))
  \/ Includes(ToLowerCase(b), ToLowerCase(a))

(* BaseTool.findRelevantInstructions(resourceType, tags), both always       *)
(* supplied by the caller: the documents whose applicable kinds overlap the *)
(* resource type, else those with a tag overlapping one of the tags, by     *)
(* priority descending and then by title                                    *)
findRelevantInstructions(docs, resourceType, tags) ==
  LET applicableCRDs(instruction) ==
        IF IsSome(instruction.frontmatter.applicableCRDs)
        THEN Val(instruction.frontmatter.applicableCRDs)
        ELSE instruction.detectedCRDs
      kindMatch(instruction) ==
        /\ Len(resourceType) > 0
        /\ \E i \in 1..Len(applicableCRDs(instruction)) :
             OverlapsLower(resourceType, applicableCRDs(instruction)[i])
      tagMatch(instruction) ==
        /\ Len(tags) > 0
        /\ \E t \in 1..Len(tags) : \E i \in 1..Len(instruction.tags) :
             OverlapsLower(instruction.tags[i], tags[t])
      relevant == Filter(docs, LAMBDA instruction :
                    kindMatch(instruction) \/ tagMatch(instruction))
      before(a, b) ==
        LET priorityA == OrZero(a.frontmatter.priority)
            priorityB == OrZero(b.frontmatter.priority)
        IN  IF priorityA # priorityB THEN priorityA > priorityB
            ELSE LocaleLess(a.title, b.title)
      sorted == SortBy(relevant, before)
  IN  [i \in 1..Len(sorted) |->
         [title |-> sorted[i].title, content |-> sorted[i].content,
          tags |-> sorted[i].tags, filePath |-> sorted[i].filePath]]

----------------------------------------------------------------------------
(* ResourceDetailsTool *)

S_uncategorized == <<"u", "n", "c", "a", "t", "e", "g", "o", "r", "i", "z", "e", "d">>

(* ResourceDetailsTool.findRelatedResources: same group, then same category *)
(* in another group, then kinds named inside the samples; at most 10        *)
findRelatedResources(map, smap, crd) ==
  LET entry(i, relationship) ==
        [resourceType |-> map[i].key, kind |-> map[i].value.kind,
         relationship |-> relationship]
      all == [i \in 1..Len(map) |-> i]
      sameGroupIdx == Filter(all, LAMBDA i :
        map[i].value.group = crd.group /\ map[i].value.kind # crd.kind)
      sameCategoryIdx ==
        IF Truthy(crd.category)
        THEN Filter(all, LAMBDA i :
               /\ map[i].value.category = crd.category
               /\ map[i].value.kind # crd.kind
               /\ map[i].value.group # crd.group)
        ELSE <<>>
      related == [k \in 1..Len(sameGroupIdx) |-> entry(sameGroupIdx[k], "same-group")]
                 \o [k \in 1..Len(sameCategoryIdx) |-> entry(sameCategoryIdx[k], "same-category")]
      list == IF IsSome(MapGet(smap, crd.kind)) THEN Val(MapGet(smap, crd.kind)) ELSE <<>>
      referenced(i) ==
        /\ map[i].value.kind # crd.kind
        /\ \E n \in 1..Len(list) : Includes(list[n].content, map[i].value.kind)
      \* the first definition of each referenced kind, unless already listed
      firstOfKind(i) == \A j \in 1..(i - 1) : map[j].value.kind # map[i].value.kind
      firstSample(i) == CHOOSE n \in 1..Len(list) :
        /\ Includes(list[n].content, map[i].value.kind)
        /\ \A m \in 1..(n - 1) : ~Includes(list[m].content, map[i].value.kind)
      \* kinds enter the set sample by sample, and within a sample in map order
      referencedIdx == SortBy(
        Filter(all, LAMBDA i :
          /\ referenced(i)
          /\ firstOfKind(i)
          /\ ~\E k \in 1..Len(related) : related[k].resourceType = map[i].key),
        LAMBDA a, b : firstSample(a) < firstSample(b))
  IN  Slice(related \o [k \in 1..Len(referencedIdx) |->
                          entry(referencedIdx[k], "referenced-in-samples")], 10)

(* a lookup that falls back to the most similar definition *)
LookupCrd_Fuzzy(map, resourceType) ==
  IF MapHas(map, resourceType) THEN MapGet(map, resourceType)
  ELSE LET similar == findSimilarResources(map, resourceType, 5)
       IN  IF Len(similar) > 0 THEN MapGet(map, similar[1]) ELSE None

(* a lookup by the kind behind the last "/" instead of by the whole key *)
LookupCrd_ByKind(map, resourceType) ==
  LET slashes == {i \in 1..Len(resourceType) : resourceType[i] = "/"}
      start == IF slashes = {} THEN 1
               ELSE 1 + CHOOSE i \in slashes : \A j \in slashes : j <= i
      kind == SubSeq(resourceType, start, Len(resourceType))
      hits == {i \in 1..Len(map) : map[i].value.kind = kind}
  IN  IF hits = {} THEN None
      ELSE Some(map[CHOOSE i \in hits : \A j \in hits : i <= j].value)

(* this.data.crds.get(resourceType): the definition stored under the key *)
LookupCrd(map, resourceType) == MapGet(map, resourceType)

(* ResourceDetailsTool.execute *)
DescribeResult(map, smap, docs, resourceType) ==
  IF ~Truthy(resourceType)
  THEN error("InvalidInput", <<Suggestion("use-list-available-resources", <<>>)>>)
  ELSE
    LET found == LookupCrd(map, Val(resourceType))
    IN  IF ~IsSome(found)
        THEN LET suggestions == findSimilarResources(map, Val(resourceType), 5)
             IN  error("NotFound",
                       IF Len(suggestions) > 0
                       THEN <<Suggestion("did-you-mean", suggestions)>>
                       ELSE <<Suggestion("use-list-available-resources", <<>>)>>)
        ELSE
          LET crd == Val(found)
              list == IF IsSome(MapGet(smap, crd.kind)) THEN Val(MapGet(smap, crd.kind)) ELSE <<>>
              relevant == findRelevantInstructions(docs, crd.kind,
                            <<IF Truthy(crd.category) THEN Val(crd.category) ELSE <<>> >>)
          IN  success(
                [resourceType |-> Val(resourceType),
                 metadata |->
                   [kind |-> crd.kind, group |-> crd.group, plural |-> crd.plural,
                    singular |-> crd.singular,
                    shortNames |-> IF IsSome(crd.shortNames) THEN Val(crd.shortNames) ELSE <<>>,
                    scope |-> crd.scope, versions |-> crd.versions,
                    category |-> IF Truthy(crd.category) THEN Val(crd.category) ELSE S_uncategorized,
                    description |-> Val(crd.description),
                    filePath |-> crd.filePath],
                 samples |-> list,
                 instructions |-> Slice(relevant, 5),
                 relatedResources |-> findRelatedResources(map, smap, crd)],
                <<Suggestion("use-generate-manifest", <<crd.kind>>)>>)

(* get-resource-details *)
DescribeResource(resourceType) ==
  /\ phase = "ready"
  /\ call = NoCall
  /\ call' = [tool |-> "get-resource-details", args |-> [resourceType |-> resourceType]]
  /\ result' = DescribeResult(crds, samples, instructions, resourceType)
  /\ UNCHANGED <<reload, phase, crds, samples, instructions, warnings, loaded, built>>

----------------------------------------------------------------------------
(* FindSamplesTool *)

complexityOrder(c) ==
  CASE c = "simple" -> 0 [] c = "intermediate" -> 1 [] c = "advanced" -> 2

(* a comparator that looks at the description alone *)
SampleBefore_DescriptionOnly(a, b) ==
  LocaleLess(a.description, b.description)

(* the comparator of the sort: complexity first, then description *)
SampleBefore(a, b) ==
  LET orderA == complexityOrder(a.complexity)
      orderB == complexityOrder(b.complexity)
  IN  IF orderA # orderB THEN orderA < orderB
      ELSE LocaleLess(a.description, b.description)

(* a filter that keeps a sample when either supplied filter accepts it *)
SampleFilter_EitherFilter(allSamples, complexity, tags) ==
  Filter(allSamples, LAMBDA sample :
    \/ ~IsSome(complexity) /\ ~(IsSome(tags) /\ Len(Val(tags)) > 0)
    \/ IsSome(complexity) /\ sample.complexity = Val(complexity)
    \/ /\ IsSome(tags) /\ Len(Val(tags)) > 0
       /\ \E t \in 1..Len(Val(tags)) : \E i \in 1..Len(sample.tags) :
            Includes(ToLowerCase(sample.tags[i]), ToLowerCase(Val(tags)[t])))

(* the two filters of FindSamplesTool.execute *)
SampleFilter(allSamples, complexity, tags) ==
  LET byComplexity ==
        IF IsSome(complexity)
        THEN Filter(allSamples, LAMBDA sample : sample.complexity = Val(complexity))
        ELSE allSamples
  IN  IF IsSome(tags) /\ Len(Val(tags)) > 0
      THEN Filter(byComplexity, LAMBDA sample :
             \E t \in 1..Len(Val(tags)) : \E i \in 1..Len(sample.tags) :
               Includes(ToLowerCase(sample.tags[i]), ToLowerCase(Val(tags)[t])))
      ELSE byComplexity

(* whether the filtered list is the stored list itself and not a copy: no   *)
(* filter ran, so the sort that follows sorts the stored list in place      *)
SortsInPlace(complexity, tags) ==
  ~IsSome(complexity) /\ ~(IsSome(tags) /\ Len(Val(tags)) > 0)

(* FindSamplesTool.findAlternativeKinds *)
findAlternativeKinds(smap, kind) ==
  LET availableKinds == [i \in 1..Len(smap) |-> smap[i].key]
      scored == [i \in 1..Len(smap) |->
                   [kind |-> smap[i].key,
                    similarity |-> calculateSimilarity(ToLowerCase(kind), ToLowerCase(smap[i].key))]]
      similar == Slice(SortBy(Filter(scored, LAMBDA item : AboveThreshold(item.similarity)),
                              LAMBDA a, b : SimGreater(a.similarity, b.similarity)), 5)
  IN  IF Len(availableKinds) = 0
      THEN <<Suggestion("no-samples-available", <<>>)>>
      ELSE (IF Len(similar) > 0
            THEN <<Suggestion("did-you-mean", [i \in 1..Len(similar) |-> similar[i].kind])>>
            ELSE <<>>)
           \o <<Suggestion("available-kinds", availableKinds)>>

(* a lookup that ignores the case of the kind *)
LookupSamples_IgnoreCase(smap, kind) ==
  LET hits == {i \in 1..Len(smap) : ToLowerCase(smap[i].key) = ToLowerCase(kind)}
  IN  IF hits = {} THEN <<>>
      ELSE smap[CHOOSE i \in hits : \A j \in hits : i <= j].value

(* this.data.samples.get(kind) || []: the list stored under the kind *)
LookupSamples(smap, kind) ==
  IF IsSome(MapGet(smap, kind)) THEN Val(MapGet(smap, kind)) ELSE <<>>

(* FindSamplesTool.execute: the result of the call.  The limit argument is  *)
(* not read by the code.                                                    *)
FindSamplesResult(smap, kind, complexity, tags, limit) ==
  IF ~Truthy(kind)
  THEN error("InvalidInput", <<Suggestion("use-list-available-resources", <<>>)>>)
  ELSE
    LET allSamples == LookupSamples(smap, Val(kind))
        filteredSamples == SampleFilter(allSamples, complexity, tags)
        sortedSamples == SortBy(filteredSamples, SampleBefore)
    IN  IF Len(allSamples) = 0
        THEN error("NotFound", findAlternativeKinds(smap, Val(kind)))
        ELSE IF Len(filteredSamples) = 0
        THEN error("NotFound", <<Suggestion("try-removing-filters", <<>>),
                                 Suggestion("total-samples-available", <<>>),
                                 Suggestion("available-complexities", <<>>)>>)
        ELSE success([kind |-> Val(kind),
                      totalSamples |-> Len(allSamples),
                      filteredCount |-> Len(sortedSamples),
                      samples |-> sortedSamples],
                     <<Suggestion("use-generate-manifest", <<Val(kind)>>)>>)

(* FindSamplesTool.execute: what the call leaves in the sample map *)
FindSamplesEffect(smap, kind, complexity, tags) ==
  IF /\ Truthy(kind)
     /\ IsSome(MapGet(smap, Val(kind)))
     /\ SortsInPlace(complexity, tags)
  THEN MapSet(smap, Val(kind), SortBy(Val(MapGet(smap, Val(kind))), SampleBefore))
  ELSE smap

(* find-samples *)
FindExamples(kind, complexity, tags, limit) ==
  /\ phase = "ready"
  /\ call = NoCall
  /\ call' = [tool |-> "find-samples",
              args |-> [kind |-> kind, complexity |-> complexity, tags |-> tags, limit |-> limit]]
  /\ result' = FindSamplesResult(samples, kind, complexity, tags, limit)
  /\ samples' = FindSamplesEffect(samples, kind, complexity, tags)
  /\ UNCHANGED <<reload, phase, crds, instructions, warnings, loaded, built>>

----------------------------------------------------------------------------
(* ResourceGuidanceTool *)

DefaultLimit == 10

(* [...(frontmatter.applicableCRDs || []), ...detectedCRDs] *)
AllApplicableCRDs(instruction) ==
  (IF IsSome(instruction.frontmatter.applicableCRDs)
   THEN Val(instruction.frontmatter.applicableCRDs) ELSE <<>>)
  \o instruction.detectedCRDs

(* a gate that looks at the applicable kinds alone, in one direction *)
ResourceTypeGate_KindContains(instruction, resourceType) ==
  \E i \in 1..Len(AllApplicableCRDs(instruction)) :
    Includes(ToLowerCase(AllApplicableCRDs(instruction)[i]), ToLowerCase(resourceType))

(* the three filters of ResourceGuidanceTool.findGuidance *)
ResourceTypeGate(instruction, resourceType) ==
  LET lowerResourceType == ToLowerCase(resourceType)
      applicableCRDs == AllApplicableCRDs(instruction)
      matches == \E i \in 1..Len(applicableCRDs) :
                   \/ Includes(ToLowerCase(applicableCRDs[i]), lowerResourceType)
                   \/ Includes(lowerResourceType, ToLowerCase(applicableCRDs[i]))
      contentMatches == Includes(ToLowerCase(instruction.content), lowerResourceType)
  IN  matches \/ contentMatches

CategoryGate(instruction, category) ==
  \/ instruction.frontmatter.category = Some(category)
  \/ Has(instruction.tags, category)

TagsGate(instruction, tags) ==
  \E t \in 1..Len(tags) : \E i \in 1..Len(instruction.tags) :
    \/ Includes(ToLowerCase(instruction.tags[i]), ToLowerCase(tags[t]))
    \/ Includes(ToLowerCase(tags[t]), ToLowerCase(instruction.tags[i]))

(* the supplied gates ORed instead of ANDed *)
GuidanceFilter_AnyGate(docs, resourceType, category, tags) ==
  Filter(docs, LAMBDA d :
    \/ Truthy(resourceType) /\ ResourceTypeGate(d, Val(resourceType))
    \/ Truthy(category) /\ CategoryGate(d, Val(category))
    \/ IsSome(tags) /\ Len(Val(tags)) > 0 /\ TagsGate(d, Val(tags)))

GuidanceFilter(docs, resourceType, category, tags) ==
  LET byType == IF Truthy(resourceType)
                THEN Filter(docs, LAMBDA d : ResourceTypeGate(d, Val(resourceType)))
                ELSE docs
      byCategory == IF Truthy(category)
                    THEN Filter(byType, LAMBDA d : CategoryGate(d, Val(category)))
                    ELSE byType
  IN  IF IsSome(tags) /\ Len(Val(tags)) > 0
      THEN Filter(byCategory, LAMBDA d : TagsGate(d, Val(tags)))
      ELSE byCategory

(* a score in which the title bonus replaces the kind bonus instead of      *)
(* adding to it                                                             *)
calculateRelevanceScore_BestBonus(instruction, resourceType, category, tags) ==
  LET lowerResourceType == ToLowerCase(Val(resourceType))
      applicableCRDs == AllApplicableCRDs(instruction)
      matchingTags == Filter(Val(tags), LAMBDA tag :
                        \E i \in 1..Len(instruction.tags) :
                          Includes(ToLowerCase(instruction.tags[i]), ToLowerCase(tag)))
  IN  OrZero(instruction.frontmatter.priority) * 10
      + (IF /\ Truthy(resourceType)
            /\ \E i \in 1..Len(applicableCRDs) :
                 Includes(ToLowerCase(applicableCRDs[i]), lowerResourceType)
         THEN 20
         ELSE IF /\ Truthy(resourceType)
                 /\ Includes(ToLowerCase(instruction.title), lowerResourceType)
         THEN 15 ELSE 0)
      + (IF Truthy(category) /\ instruction.frontmatter.category = Some(Val(category))
         THEN 15 ELSE 0)
      + (IF IsSome(tags) THEN Len(matchingTags) * 5 ELSE 0)

(* ResourceGuidanceTool.calculateRelevanceScore *)
calculateRelevanceScore(instruction, resourceType, category, tags) ==
  LET lowerResourceType == ToLowerCase(Val(resourceType))
      applicableCRDs == AllApplicableCRDs(instruction)
      matchingTags == Filter(Val(tags), LAMBDA tag :
                        \E i \in 1..Len(instruction.tags) :
                          Includes(ToLowerCase(instruction.tags[i]), ToLowerCase(tag)))
  IN  OrZero(instruction.frontmatter.priority) * 10
      + (IF /\ Truthy(resourceType)
            /\ \E i \in 1..Len(applicableCRDs) :
                 Includes(ToLowerCase(applicableCRDs[i]), lowerResourceType)
         THEN 20 ELSE 0)
      + (IF /\ Truthy(resourceType)
            /\ Includes(ToLowerCase(instruction.title), lowerResourceType)
         THEN 15 ELSE 0)
      + (IF Truthy(category) /\ instruction.frontmatter.category = Some(Val(category))
         THEN 15 ELSE 0)
      + (IF IsSome(tags) THEN Len(matchingTags) * 5 ELSE 0)

(* a single combined score as the only sort key *)
GuidanceBefore_ScoreOnly(a, b) == a.relevanceScore > b.relevanceScore

(* the comparator of the sort in findGuidance: priority, then score *)
GuidanceBefore(a, b) ==
  LET priorityA == OrZero(a.frontmatter.priority)
      priorityB == OrZero(b.frontmatter.priority)
  IN  IF priorityA # priorityB THEN priorityA > priorityB
      ELSE a.relevanceScore > b.relevanceScore

(* truncation before the sort *)
RankGuidance_SliceFirst(scored, limit) == SortBy(Slice(scored, limit), GuidanceBefore)

(* .sort(...).slice(0, limit) at the end of findGuidance *)
RankGuidance(scored, limit) == Slice(SortBy(scored, GuidanceBefore), limit)

(* ResourceGuidanceTool.findGuidance *)
findGuidance(docs, resourceType, category, tags, limit) ==
  LET relevantInstructions == GuidanceFilter(docs, resourceType, category, tags)
      scored == [i \in 1..Len(relevantInstructions) |->
                   [filePath |-> relevantInstructions[i].filePath,
                    title |-> relevantInstructions[i].title,
                    content |-> relevantInstructions[i].content,
                    frontmatter |-> relevantInstructions[i].frontmatter,
                    detectedCRDs |-> relevantInstructions[i].detectedCRDs,
                    tags |-> relevantInstructions[i].tags,
                    relevanceScore |-> calculateRelevanceScore(relevantInstructions[i],
                                         resourceType, category, tags)]]
  IN  RankGuidance(scored, limit)

(* the distinct elements of a sequence in order of first occurrence: new Set *)
Distinct(seq) ==
  LET all == [i \in 1..Len(seq) |-> i]
      firsts == Filter(all, LAMBDA i : \A j \in 1..(i - 1) : seq[j] # seq[i])
  IN  [k \in 1..Len(firsts) |-> seq[firsts[k]]]

RECURSIVE Flatten(_)
Flatten(seqs) == IF seqs = <<>> THEN <<>> ELSE Head(seqs) \o Flatten(Tail(seqs))

(* ResourceGuidanceTool.generateNoResultsSuggestions *)
generateNoResultsSuggestions(map, docs, resourceType, category) ==
  LET similar == findSimilarResources(map, Val(resourceType), 3)
      withCategory == Filter(docs, LAMBDA d :
                        /\ Truthy(d.frontmatter.category)
                        /\ d.frontmatter.category # category)
      availableCategories == Distinct([i \in 1..Len(withCategory) |->
                                         Val(withCategory[i].frontmatter.category)])
      availableTags == Distinct(Flatten([i \in 1..Len(docs) |-> docs[i].tags]))
  IN  (IF Truthy(resourceType) /\ Len(similar) > 0
       THEN <<Suggestion("try-similar-resources", similar)>> ELSE <<>>)
      \o (IF Truthy(category) /\ Len(availableCategories) > 0
          THEN <<Suggestion("try-other-categories", availableCategories)>> ELSE <<>>)
      \o (IF Len(availableTags) > 0
          THEN <<Suggestion("available-tags", Slice(availableTags, 10))>> ELSE <<>>)
      \o <<Suggestion("remove-some-filters", <<>>)>>

(* the validation without the test for an empty tag list *)
IsEmptyQuery_TagsDefined(resourceType, category, tags) ==
  ~Truthy(resourceType) /\ ~Truthy(category) /\ ~IsSome(tags)

(* !resourceType && !category && (!tags || tags.length === 0) *)
IsEmptyQuery(resourceType, category, tags) ==
  ~Truthy(resourceType) /\ ~Truthy(category) /\ (~IsSome(tags) \/ Len(Val(tags)) = 0)

(* ResourceGuidanceTool.execute *)
GuidanceResult(map, docs, resourceType, category, tags, limitArg) ==
  LET limit == IF IsSome(limitArg) THEN Val(limitArg) ELSE DefaultLimit
      guidance == findGuidance(docs, resourceType, category, tags, limit)
  IN  IF IsEmptyQuery(resourceType, category, tags)
      THEN error("EmptyQuery", <<Suggestion("use-resourceType", <<>>),
                                 Suggestion("use-category", <<>>),
                                 Suggestion("use-tags", <<>>)>>)
      ELSE IF Len(guidance) = 0
      THEN error("NoMatch", generateNoResultsSuggestions(map, docs, resourceType, category))
      ELSE success(
             [guidanceCount |-> Len(guidance),
              totalAvailable |-> Len(docs),
              guidance |-> [i \in 1..Len(guidance) |->
                 [title |-> guidance[i].title,
                  content |-> guidance[i].content,
                  tags |-> guidance[i].tags,
                  applicableCRDs |-> IF IsSome(guidance[i].frontmatter.applicableCRDs)
                                     THEN Val(guidance[i].frontmatter.applicableCRDs)
                                     ELSE guidance[i].detectedCRDs,
                  category |-> guidance[i].frontmatter.category,
                  priority |-> OrZero(guidance[i].frontmatter.priority),
                  filePath |-> guidance[i].filePath]]],
             <<Suggestion("use-find-samples", <<>>)>>)

(* get-resource-guidance *)
FindGuidance(resourceType, category, tags, limit) ==
  /\ phase = "ready"
  /\ call = NoCall
  /\ call' = [tool |-> "get-resource-guidance",
              args |-> [resourceType |-> resourceType, category |-> category,
                        tags |-> tags, limit |-> limit]]
  /\ result' = GuidanceResult(crds, instructions, resourceType, category, tags, limit)
  /\ UNCHANGED <<reload, phase, crds, samples, instructions, warnings, loaded, built>>

----------------------------------------------------------------------------
(* ListResourcesTool *)

(* a stand-in for the missing category that sorts before every category *)
S_aaa == <<"a", "a", "a">>

S_zzz == <<"z", "z", "z">>

(* a search that looks at the kind alone *)
filterResources_KindSearch(map, filter) ==
  LET searchTerm == ToLowerCase(Val(filter.search))
      kept == Filter(map, LAMBDA e :
                /\ Truthy(filter.category) => e.value.category = filter.category
                /\ Truthy(filter.group) => e.value.group = Val(filter.group)
                /\ IsSome(filter.scope) => e.value.scope = Val(filter.scope)
                /\ Truthy(filter.search) => Includes(ToLowerCase(e.value.kind), searchTerm))
      before(a, b) ==
        LET categoryA == IF Truthy(a.value.category) THEN Val(a.value.category) ELSE S_zzz
            categoryB == IF Truthy(b.value.category) THEN Val(b.value.category) ELSE S_zzz
        IN  IF categoryA # categoryB THEN LocaleLess(categoryA, categoryB)
            ELSE LocaleLess(a.value.kind, b.value.kind)
  IN  SortBy(kept, before)

(* ListResourcesTool.filterResources *)
filterResources(map, filter) ==
  LET searchTerm == ToLowerCase(Val(filter.search))
      byCategory == IF Truthy(filter.category)
                    THEN Filter(map, LAMBDA e : e.value.category = filter.category)
                    ELSE map
      byGroup == IF Truthy(filter.group)
                 THEN Filter(byCategory, LAMBDA e : e.value.group = Val(filter.group))
                 ELSE byCategory
      byScope == IF IsSome(filter.scope)
                 THEN Filter(byGroup, LAMBDA e : e.value.scope = Val(filter.scope))
                 ELSE byGroup
      bySearch == IF Truthy(filter.search)
                  THEN Filter(byScope, LAMBDA e :
                         \/ Includes(ToLowerCase(e.value.kind), searchTerm)
                         \/ Includes(ToLowerCase(e.value.group), searchTerm)
                         \/ Includes(ToLowerCase(e.value.plural), searchTerm)
                         \/ /\ Truthy(e.value.description)
                            /\ Includes(ToLowerCase(Val(e.value.description)), searchTerm)
                         \/ Includes(ToLowerCase(e.key), searchTerm))
                  ELSE byScope
      before(a, b) ==
        LET categoryA == IF Truthy(a.value.category) THEN Val(a.value.category) ELSE S_zzz
            categoryB == IF Truthy(b.value.category) THEN Val(b.value.category) ELSE S_zzz
        IN  IF categoryA # categoryB THEN LocaleLess(categoryA, categoryB)
            ELSE LocaleLess(a.value.kind, b.value.kind)
  IN  SortBy(bySearch, before)

(* ListResourcesTool.generateCategoryStatistics *)
generateCategoryStatistics(resources) ==
  LET categoryOf(e) == IF Truthy(e.value.category) THEN Val(e.value.category) ELSE S_uncategorized
      names == Distinct([i \in 1..Len(resources) |-> categoryOf(resources[i])])
  IN  [k \in 1..Len(names) |->
         [category |-> names[k],
          count |-> Cardinality({i \in 1..Len(resources) : categoryOf(resources[i]) = names[k]})]]

(* ListResourcesTool.generateSuggestions *)
generateSuggestions(map, filter) ==
  LET similar == findSimilarResources(map, Val(filter.search), 3)
      others == Filter(map, LAMBDA e :
                  Truthy(e.value.category) /\ e.value.category # filter.category)
      availableCategories == Distinct([i \in 1..Len(others) |-> Val(others[i].value.category)])
  IN  (IF Truthy(filter.search) /\ Len(similar) > 0
       THEN <<Suggestion("did-you-mean", similar)>> ELSE <<>>)
      \o (IF Truthy(filter.category) /\ Len(availableCategories) > 0
          THEN <<Suggestion("try-other-categories", availableCategories)>> ELSE <<>>)
      \o (IF Len(map) > 0
          THEN <<Suggestion("use-get-resource-details", <<>>),
                 Suggestion("remove-filters", <<>>)>>
          ELSE <<>>)

(* ListResourcesTool.execute *)
ListResult(map, filter) ==
  LET resources == filterResources(map, filter)
  IN  IF Len(resources) = 0
      THEN error("NotFound", generateSuggestions(map, filter))
      ELSE success(
             [resources |-> [i \in 1..Len(resources) |->
                [resourceType |-> resources[i].key,
                 kind |-> resources[i].value.kind,
                 group |-> resources[i].value.group,
                 plural |-> resources[i].value.plural,
                 scope |-> resources[i].value.scope,
                 versions |-> resources[i].value.versions,
                 category |-> IF Truthy(resources[i].value.category)
                              THEN Val(resources[i].value.category) ELSE S_uncategorized,
                 description |-> Val(resources[i].value.description),
                 shortNames |-> IF IsSome(resources[i].value.shortNames)
                                THEN Val(resources[i].value.shortNames) ELSE <<>>]],
              totalCount |-> Len(resources),
              categories |-> generateCategoryStatistics(resources)],
             <<Suggestion("next-steps", <<resources[1].key>>)>>)

(* list-available-resources *)
ListResources(filter) ==
  /\ phase = "ready"
  /\ call = NoCall
  /\ call' = [tool |-> "list-available-resources", args |-> filter]
  /\ result' = ListResult(crds, filter)
  /\ UNCHANGED <<reload, phase, crds, samples, instructions, warnings, loaded, built>>

----------------------------------------------------------------------------
(* The arguments the tools are called with *)

(* composite keys, bare kinds in several cases, short names, near misses *)
ResourceTypeArgs ==
  {None, Some(<<>>), Some(<<"x", "/", "D", "b">>), Some(<<"y", "/", "D", "b">>), Some(<<"x", "/", "A", "p", "i">>), Some(<<"D", "b">>), Some(<<"d", "b">>), Some(<<"d">>), Some(<<"D">>), Some(<<"d", "b", "s">>), Some(<<"x", "/", "D">>), Some(<<"D", "a">>), Some(<<"q", "q", "q", "q">>)}

KindArgs ==
  {None, Some(<<"D", "b">>), Some(<<"d", "b">>)}

ComplexityArgs == {None, Some("simple"), Some("advanced")}

SampleTagArgs ==
  {None, Some(<<>>), Some(<<<<"P", "R", "O", "D">>, <<"d", "e", "v">>>>)}

(* limit: z.number().min(1).max(50).optional() *)
LimitArgs == {None} \cup {Some(n) : n \in 1..MaxLimit}

(* find-samples declares no limit; callers pass one all the same *)
SampleLimitArgs == {None, Some(1)}

GuidanceTypeArgs ==
  {None, Some(<<>>), Some(<<"D", "b">>)}

CategoryArgs ==
  {None, Some(<<"d", "a", "t", "a", "b", "a", "s", "e">>), Some(<<"s", "e", "r", "v", "i", "c", "e">>)}

GuidanceTagArgs ==
  {None, Some(<<>>), Some(<<<<"P", "R", "O", "D">>, <<"o", "p", "s">>>>)}

ListFilters ==
  [category : CategoryArgs,
   search : {None, Some(<<"D", "B">>), Some(<<"q">>)},
   group : {None, Some(<<"x">>)},
   scope : {None, Some("Cluster")}]

----------------------------------------------------------------------------
(* The handler registered with the server returns the tool result to the   *)
(* client; the server is then free for the next request.                   *)
Respond ==
  /\ phase = "ready"
  /\ call # NoCall
  /\ call' = NoCall
  /\ result' = NoResult
  /\ UNCHANGED <<reload, phase, crds, samples, instructions, warnings, loaded, built>>

Next ==
  \/ \E doc \in CrdDocs : LoadCRD(doc)
  \/ \E sample \in SampleDocs : LoadSample(sample)
  \/ \E instruction \in InstructionDocs : LoadInstruction(instruction)
  \/ FinishLoad
  \/ \E filter \in ListFilters : ListResources(filter)
  \/ \E resourceType \in ResourceTypeArgs : DescribeResource(resourceType)
  \/ \E kind \in KindArgs, complexity \in ComplexityArgs, tags \in SampleTagArgs,
        limit \in SampleLimitArgs : FindExamples(kind, complexity, tags, limit)
  \/ \E resourceType \in GuidanceTypeArgs, category \in CategoryArgs,
        tags \in GuidanceTagArgs, limit \in LimitArgs :
        FindGuidance(resourceType, category, tags, limit)
  \/ Respond

Spec == Init /\ [][Next]_vars

----------------------------------------------------------------------------
(* Properties *)

IsCall(tool) == phase = "ready" /\ call.tool = tool

(* the query of a get-resource-details call, when it is a non-empty string *)
HasQuery == IsCall("get-resource-details") /\ Truthy(call.args.resourceType)
Query == Val(call.args.resourceType)

KeyMatch(q) == \E i \in 1..Len(crds) : crds[i].key = q
KindMatch(q) == \E i \in 1..Len(crds) : ToLowerCase(crds[i].value.kind) = ToLowerCase(q)
AliasMatch(q) ==
  \E i \in 1..Len(crds) :
    /\ IsSome(crds[i].value.shortNames)
    /\ \E n \in 1..Len(Val(crds[i].value.shortNames)) :
         ToLowerCase(Val(crds[i].value.shortNames)[n]) = ToLowerCase(q)

(* C1: no query operation mutates the built index: in every state after the *)
(* build, the definition map, every kind's example sequence (order          *)
(* included) and the guidance sequence equal what they were when the index  *)
(* was built.                                                               *)
C1_IndexNeverMutated ==
  phase = "ready" =>
    /\ crds = built.crds
    /\ samples = built.samples
    /\ instructions = built.instructions

(* C2: DescribeResource never auto-selects a fuzzy match: a query that      *)
(* matches no definition by composite key, by kind in any case or by alias  *)
(* ends in a Failure that carries no definition, however similar the query  *)
(* is to a definition; the similar definitions are only suggested.          *)
C2_NoFuzzyAutoSelect ==
  (HasQuery /\ ~KeyMatch(Query) /\ ~KindMatch(Query) /\ ~AliasMatch(Query)) =>
    /\ ~result.success
    /\ result.error = "NotFound"
    /\ result.data = <<>>

(* a miss on a query that equals a stored plural, so that its similarity to *)
(* the definition is 1, answered with that definition as a suggestion       *)
C2_Witness ==
  /\ HasQuery /\ ~KeyMatch(Query) /\ ~KindMatch(Query) /\ ~AliasMatch(Query)
  /\ \E i \in 1..Len(crds) : ToLowerCase(crds[i].value.plural) = ToLowerCase(Query)
  /\ ~result.success
  /\ result.suggestions[1].text = "did-you-mean"
  /\ Len(result.suggestions[1].items) > 0

(* C3: for every composite key "group/kind" present in the index,           *)
(* DescribeResource(key) succeeds and returns the metadata of exactly the   *)
(* definition stored under that key, whatever other definitions exist.      *)
C3_ExactKeyResolves ==
  (HasQuery /\ KeyMatch(Query)) =>
    /\ result.success
    /\ generateResourceKey(result.data.metadata.group, result.data.metadata.kind) = Query
    /\ \E i \in 1..Len(crds) :
         /\ crds[i].key = Query
         /\ result.data.metadata.filePath = crds[i].value.filePath
         /\ result.data.metadata.plural = crds[i].value.plural
         /\ result.data.metadata.scope = crds[i].value.scope
         /\ result.data.metadata.versions = crds[i].value.versions

(* the key of the second of two definitions of the same kind is resolved *)
C3_Witness ==
  /\ HasQuery
  /\ Len(crds) = 2
  /\ crds[1].value.kind = crds[2].value.kind
  /\ Query = crds[2].key
  /\ result.success
  /\ result.data.metadata.filePath = crds[2].value.filePath

(* C4: DescribeResource resolves a query that names a stored kind without   *)
(* its group, compared case-insensitively: the result is a Success carrying *)
(* a definition of that kind.                                               *)
C4_KindOnlyResolves ==
  (HasQuery /\ KindMatch(Query)) =>
    /\ result.success
    /\ ToLowerCase(result.data.metadata.kind) = ToLowerCase(Query)

(* C5: DescribeResource resolves a query that equals a short alias of a     *)
(* definition, compared case-insensitively, when it matches no composite    *)
(* key and no kind: the result is a Success carrying that definition.       *)
C5_AliasResolves ==
  (HasQuery /\ ~KeyMatch(Query) /\ ~KindMatch(Query) /\ AliasMatch(Query)) =>
    /\ result.success
    /\ \E n \in 1..Len(result.data.metadata.shortNames) :
         ToLowerCase(result.data.metadata.shortNames[n]) = ToLowerCase(Query)

(* the arguments of a get-resource-guidance call *)
GArgs == call.args
GQueryEmpty ==
  /\ ~Truthy(GArgs.resourceType)
  /\ ~Truthy(GArgs.category)
  /\ (~IsSome(GArgs.tags) \/ Len(Val(GArgs.tags)) = 0)
GLimit == IF IsSome(GArgs.limit) THEN Val(GArgs.limit) ELSE 10

(* the loaded documents that pass the gate of every supplied field *)
PassesAllGates(d) ==
  /\ Truthy(GArgs.resourceType) => ResourceTypeGate(d, Val(GArgs.resourceType))
  /\ Truthy(GArgs.category) => CategoryGate(d, Val(GArgs.category))
  /\ (IsSome(GArgs.tags) /\ Len(Val(GArgs.tags)) > 0) => TagsGate(d, Val(GArgs.tags))
Passing == {i \in 1..Len(instructions) : PassesAllGates(instructions[i])}

(* the loaded document behind an entry of the returned guidance list, its   *)
(* priority and its relevance score for the call                            *)
Returned == result.data.guidance
DocOf(filePath) == instructions[CHOOSE i \in 1..Len(instructions) : instructions[i].filePath = filePath]
PriorityOf(d) == IF IsSome(d.frontmatter.priority) THEN Val(d.frontmatter.priority) ELSE 0
ScoreOf(d) == calculateRelevanceScore(d, GArgs.resourceType, GArgs.category, GArgs.tags)
SortsBefore(a, b) ==
  \/ PriorityOf(a) > PriorityOf(b)
  \/ PriorityOf(a) = PriorityOf(b) /\ ScoreOf(a) > ScoreOf(b)

(* C6: FindGuidance called with resourceType and category both absent or    *)
(* empty and tags absent or an empty list returns an EmptyQuery Failure,    *)
(* never a Success.                                                         *)
C6_EmptyQueryRejected ==
  (IsCall("get-resource-guidance") /\ GQueryEmpty) =>
    /\ ~result.success
    /\ result.error = "EmptyQuery"

(* an empty tag list as the only argument, against loaded documents *)
C6_Witness ==
  /\ IsCall("get-resource-guidance")
  /\ GArgs.tags = Some(<<>>) /\ ~IsSome(GArgs.resourceType) /\ ~IsSome(GArgs.category)
  /\ Len(instructions) > 0
  /\ result.error = "EmptyQuery"

(* C7: FindGuidance returns a NoMatch Failure carrying suggestions exactly  *)
(* when no document passes every supplied filter; whenever a document       *)
(* passes, the result is a Success with a non-empty guidance list, and it   *)
(* is never a Success with an empty list.                                   *)
C7_NoMatchIffNothingPasses ==
  (IsCall("get-resource-guidance") /\ ~GQueryEmpty) =>
    /\ (Passing = {}) <=> (~result.success /\ result.error = "NoMatch")
    /\ (Passing = {}) => Len(result.suggestions) > 0
    /\ (Passing # {}) => (result.success /\ Len(Returned) > 0)
    /\ result.success => Len(Returned) > 0

(* documents are loaded, each passes one of two supplied gates, none both *)
C7_Witness ==
  /\ IsCall("get-resource-guidance")
  /\ Truthy(GArgs.resourceType) /\ Truthy(GArgs.category)
  /\ Len(instructions) > 0
  /\ \A i \in 1..Len(instructions) :
       \/ ResourceTypeGate(instructions[i], Val(GArgs.resourceType))
       \/ CategoryGate(instructions[i], Val(GArgs.category))
  /\ Passing = {}
  /\ result.error = "NoMatch"
  /\ Len(result.suggestions) > 0

(* C8: FindGuidance orders its results by priority descending (a missing    *)
(* priority counts as 0) and by relevance score descending only among       *)
(* documents of equal priority: a higher-priority document precedes a       *)
(* lower-priority one even when the latter has the higher score.            *)
C8_PriorityThenScore ==
  (IsCall("get-resource-guidance") /\ result.success) =>
    \A i, j \in 1..Len(Returned) :
      i < j =>
        LET a == DocOf(Returned[i].filePath)
            b == DocOf(Returned[j].filePath)
        IN  /\ PriorityOf(a) >= PriorityOf(b)
            /\ PriorityOf(a) = PriorityOf(b) => ScoreOf(a) >= ScoreOf(b)

(* the document listed first has the higher priority and the strictly lower *)
(* relevance score                                                          *)
C8_Witness ==
  /\ IsCall("get-resource-guidance") /\ result.success
  /\ Len(Returned) = 2
  /\ PriorityOf(DocOf(Returned[1].filePath)) > PriorityOf(DocOf(Returned[2].filePath))
  /\ ScoreOf(DocOf(Returned[1].filePath)) < ScoreOf(DocOf(Returned[2].filePath))

(* C9: FindGuidance returns the first limit documents of the sorted list    *)
(* (limit is 10 when not supplied): never more than limit documents, as     *)
(* many as pass when fewer pass, and no omitted document sorts before a     *)
(* returned one.                                                            *)
C9_FirstLimitOfSorted ==
  (IsCall("get-resource-guidance") /\ result.success) =>
    /\ Len(Returned) <= GLimit
    /\ Len(Returned) = Min2(GLimit, Cardinality(Passing))
    /\ \A i \in 1..Len(Returned) : \E p \in Passing :
         instructions[p].filePath = Returned[i].filePath
    /\ \A p \in Passing :
         (\A i \in 1..Len(Returned) : Returned[i].filePath # instructions[p].filePath) =>
           \A i \in 1..Len(Returned) :
             ~SortsBefore(instructions[p], DocOf(Returned[i].filePath))

(* two documents pass, the limit is 1, and the one returned was loaded last *)
C9_Witness ==
  /\ IsCall("get-resource-guidance") /\ result.success
  /\ GArgs.limit = Some(1)
  /\ Cardinality(Passing) = 2
  /\ Len(Returned) = 1
  /\ Returned[1].filePath = instructions[2].filePath

(* C10: FindExamples returns at most limit examples, 10 when limit is not   *)
(* supplied, however many examples the kind's bucket holds.                 *)
C10_AtMostLimitExamples ==
  (IsCall("find-samples") /\ result.success) =>
    Len(result.data.samples) <= (IF IsSome(call.args.limit) THEN Val(call.args.limit) ELSE 10)

(* the examples a successful find-samples call returned, and the bucket of  *)
(* the kind as the loader built it                                          *)
FoundSamples == result.data.samples
BuiltBucket ==
  LET kind == Val(call.args.kind)
  IN  IF MapHas(built.samples, kind) THEN Val(MapGet(built.samples, kind)) ELSE <<>>

ComplexityRank(c) ==
  CASE c = "simple" -> 1 [] c = "intermediate" -> 2 [] c = "advanced" -> 3

(* C11: the examples FindExamples returns are ordered by complexity,        *)
(* simple before intermediate before advanced, and examples of equal        *)
(* complexity by description ascending, whatever the insertion order was.   *)
C11_SortedByComplexityThenDescription ==
  (IsCall("find-samples") /\ result.success) =>
    \A i, j \in 1..Len(FoundSamples) :
      i < j =>
        \/ ComplexityRank(FoundSamples[i].complexity) < ComplexityRank(FoundSamples[j].complexity)
        \/ /\ FoundSamples[i].complexity = FoundSamples[j].complexity
           /\ ~LocaleLess(FoundSamples[j].description, FoundSamples[i].description)

(* two examples inserted as [advanced, intermediate] come out reversed *)
C11_Witness ==
  /\ IsCall("find-samples") /\ result.success
  /\ Len(FoundSamples) = 2 /\ Len(BuiltBucket) = 2
  /\ BuiltBucket[1].complexity = "advanced"
  /\ BuiltBucket[2].complexity = "intermediate"
  /\ FoundSamples[1].filePath = BuiltBucket[2].filePath
  /\ FoundSamples[2].filePath = BuiltBucket[1].filePath

(* two examples of equal complexity inserted as ["b", "a"] come out as      *)
(* ["a", "b"]                                                               *)
C11_WitnessTie ==
  /\ IsCall("find-samples") /\ result.success
  /\ Len(FoundSamples) = 2 /\ Len(BuiltBucket) = 2
  /\ BuiltBucket[1].complexity = BuiltBucket[2].complexity
  /\ LocaleLess(BuiltBucket[2].description, BuiltBucket[1].description)
  /\ FoundSamples[1].filePath = BuiltBucket[2].filePath

(* C12: FindExamples looks the kind up exactly and case-sensitively: when   *)
(* no non-empty bucket is stored under the very string that was asked for   *)
(* (a kind that differs by case alone included), the result is a Failure    *)
(* with suggestions and no examples, and a Success only ever returns        *)
(* examples of the bucket stored under that string.                         *)
C12_ExactKindLookup ==
  (IsCall("find-samples") /\ Truthy(call.args.kind)) =>
    /\ Len(BuiltBucket) = 0 =>
         /\ ~result.success
         /\ result.error = "NotFound"
         /\ Len(result.suggestions) > 0
         /\ result.data = <<>>
    /\ result.success =>
         \A i \in 1..Len(FoundSamples) :
           \E j \in 1..Len(BuiltBucket) : BuiltBucket[j].filePath = FoundSamples[i].filePath

(* the kind asked for differs by case alone from a kind that has examples *)
C12_Witness ==
  /\ IsCall("find-samples") /\ Truthy(call.args.kind)
  /\ Len(BuiltBucket) = 0
  /\ \E i \in 1..Len(built.samples) :
       /\ built.samples[i].key # Val(call.args.kind)
       /\ ToLowerCase(built.samples[i].key) = ToLowerCase(Val(call.args.kind))
       /\ Len(built.samples[i].value) > 0
  /\ ~result.success /\ Len(result.suggestions) > 0

----------------------------------------------------------------------------
(* The facade: ToolRegistry.executeTool over an index the loaders built,    *)
(* called with any tool name and with arguments of any JavaScript type.     *)

(* A JavaScript value of an argument field: undefined, a string, a number   *)
(* or an array of strings.  Only the component its type names is read.      *)
JsValue(t, s, n, a) == [t |-> t, s |-> s, n |-> n, a |-> a]
JsUndefined == JsValue("undefined", <<>>, 0, <<>>)
JsString(s) == JsValue("string", s, 0, <<>>)
JsNumber(n) == JsValue("number", <<>>, n, <<>>)
JsArray(a) == JsValue("array", <<>>, 0, a)

(* truthiness: undefined, "" and 0 are falsy, every array is truthy *)
JsTruthy(x) ==
  CASE x.t = "undefined" -> FALSE
    [] x.t = "string" -> Len(x.s) > 0
    [] x.t = "number" -> x.n # 0
    [] x.t = "array" -> TRUE

(* x && x.length > 0: a number has no length, undefined > 0 is false *)
JsNonEmpty(x) ==
  CASE x.t = "undefined" -> FALSE
    [] x.t = "string" -> Len(x.s) > 0
    [] x.t = "number" -> FALSE
    [] x.t = "array" -> Len(x.a) > 0

(* the optional string, or optional array, a well-typed value stands for *)
AsString(x) == IF x.t = "string" THEN Some(x.s) ELSE None
AsArray(x) == IF x.t = "array" THEN Some(x.a) ELSE None

(* spec.names.plural of a definition that declares none: isCRDDocument      *)
(* asks for spec.group, spec.names and spec.names.kind only                 *)
Undefined == <<"undefined">>

(* a CustomResourceDefinition document without spec.names.plural *)
MalformedCrdDoc ==
  [filePath |-> <<"c", "6">>, group |-> <<"x">>, kind |-> <<"A", "b">>, plural |-> Undefined,
   singular |-> None, shortNames |-> None, scope |-> "Namespaced", versions |-> <<<<"v", "1">>>>]

CrdDoc(n) == CHOOSE d \in CrdDocs : d.filePath = <<"c", n>>
SampleDoc(n) == CHOOSE d \in SampleDocs : d.filePath = <<"s", n>>
InstructionDoc(n) == CHOOSE d \in InstructionDocs : d.filePath = <<"i", n>>

(* CRDLoader.loadCRDs over a sequence of documents *)
RECURSIVE loadCRDs(_)
loadCRDs(docs) ==
  IF docs = <<>> THEN <<>>
  ELSE LET crdMetadata == extractCRDMetadata(docs[Len(docs)])
       IN  MapSet(loadCRDs(SubSeq(docs, 1, Len(docs) - 1)),
                  generateResourceKey(crdMetadata.group, crdMetadata.kind), crdMetadata)

(* SampleLoader.loadSamples over a sequence of manifests *)
RECURSIVE loadSamples(_)
loadSamples(docs) ==
  IF docs = <<>> THEN <<>>
  ELSE LET sample == docs[Len(docs)]
           before == loadSamples(SubSeq(docs, 1, Len(docs) - 1))
       IN  MapSet(before, sample.kind, Append(LookupSamples(before, sample.kind), sample))

(* the indexes the registry is constructed over *)
FacadeCrds ==
  {loadCRDs(<<>>), loadCRDs(<<CrdDoc("1")>>), loadCRDs(<<MalformedCrdDoc>>),
   loadCRDs(<<CrdDoc("1"), MalformedCrdDoc>>)}
FacadeSamples ==
  {loadSamples(<<>>), loadSamples(<<SampleDoc("1"), SampleDoc("2")>>)}
FacadeInstructions ==
  {<<>>, <<InstructionDoc("1"), InstructionDoc("2")>>}

(* new ToolRegistry(data) *)
InitFacade ==
  /\ phase = "ready"
  /\ crds \in FacadeCrds
  /\ samples \in FacadeSamples
  /\ instructions \in FacadeInstructions
  /\ warnings = <<>>
  /\ loaded = {}
  /\ built = [crds |-> crds, samples |-> samples, instructions |-> instructions]
  /\ call = NoCall
  /\ result = NoResult
  /\ reload = NoReload

(* an exception in flight: what a function yields when it throws instead of *)
(* returning.  It is no ToolResult.                                         *)
Thrown == [success |-> FALSE, error |-> "thrown", data |-> <<>>, suggestions |-> <<>>]

(* a handler that lets the exception pass *)
Catch_Rethrow(outcome, handler) == outcome

(* try { return outcome } catch (error) { return handler } *)
Catch(outcome, handler) == IF outcome = Thrown THEN handler ELSE outcome

(* whether BaseTool.findSimilarResources throws: its loop calls             *)
(* query.toLowerCase() and crd.plural.toLowerCase() for every definition    *)
findSimilarResourcesThrows(map, query) ==
  /\ Len(map) > 0
  /\ \/ query.t # "string"
     \/ \E i \in 1..Len(map) : map[i].value.plural = Undefined

(* ResourceDetailsTool.execute, the body of its try block *)
ResourceDetailsBody(map, smap, docs, args) ==
  IF ~args.present THEN Thrown
  ELSE IF ~JsTruthy(args.resourceType) \/ args.resourceType.t # "string"
  THEN error("InvalidInput", <<Suggestion("use-list-available-resources", <<>>)>>)
  ELSE IF /\ ~IsSome(LookupCrd(map, args.resourceType.s))
          /\ findSimilarResourcesThrows(map, args.resourceType)
  THEN Thrown
  ELSE DescribeResult(map, smap, docs, AsString(args.resourceType))

(* FindSamplesTool.execute, the body of its try block: tags.some is no      *)
(* function when tags is a string, and the filter calls it once per sample  *)
FindSamplesBody(smap, args) ==
  IF ~args.present THEN Thrown
  ELSE IF ~JsTruthy(args.kind) \/ args.kind.t # "string"
  THEN error("InvalidInput", <<Suggestion("use-list-available-resources", <<>>)>>)
  ELSE LET allSamples == LookupSamples(smap, args.kind.s)
           byComplexity == SampleFilter(allSamples, args.complexity, None)
       IN  IF /\ Len(allSamples) > 0
              /\ JsNonEmpty(args.tags) /\ args.tags.t # "array"
              /\ Len(byComplexity) > 0
           THEN Thrown
           ELSE FindSamplesResult(smap, AsString(args.kind), args.complexity,
                                  AsArray(args.tags), None)

(* ResourceGuidanceTool.execute, the body of its try block.  A resourceType *)
(* that is no string throws in the first filter callback; tags that are no  *)
(* array throw in the tags filter callback (a string) or in                 *)
(* calculateRelevanceScore (a number), once per remaining document; with no *)
(* document left, generateNoResultsSuggestions calls findSimilarResources.  *)
ResourceGuidanceBody(map, docs, args) ==
  IF ~args.present THEN Thrown
  ELSE IF /\ ~JsTruthy(args.resourceType) /\ ~Truthy(args.category)
          /\ (~JsTruthy(args.tags) \/ (args.tags.t \in {"string", "array"} /\ ~JsNonEmpty(args.tags)))
  THEN error("EmptyQuery", <<Suggestion("use-resourceType", <<>>),
                             Suggestion("use-category", <<>>),
                             Suggestion("use-tags", <<>>)>>)
  ELSE IF JsTruthy(args.resourceType) /\ args.resourceType.t # "string"
  THEN IF Len(docs) > 0 \/ findSimilarResourcesThrows(map, args.resourceType)
       THEN Thrown
       ELSE error("NoMatch", generateNoResultsSuggestions(map, docs, None, args.category))
  ELSE LET resourceType == AsString(args.resourceType)
           tags == AsArray(args.tags)
           remaining == GuidanceFilter(docs, resourceType, args.category, tags)
       IN  IF JsTruthy(args.tags) /\ args.tags.t # "array" /\ Len(remaining) > 0
           THEN Thrown
           ELSE IF /\ Len(remaining) = 0
                   /\ JsTruthy(args.resourceType)
                   /\ findSimilarResourcesThrows(map, args.resourceType)
           THEN Thrown
           ELSE IF Len(remaining) = 0
           THEN error("NoMatch", generateNoResultsSuggestions(map, docs, resourceType, args.category))
           ELSE GuidanceResult(map, docs, resourceType, args.category, tags, args.limit)

(* ListResourcesTool.execute, the body of its try block: search.toLowerCase *)
(* is called before the filter, crd.plural.toLowerCase() for the            *)
(* definitions whose kind and group do not hold the search term             *)
ListResourcesBody(map, args) ==
  IF ~args.present THEN Thrown
  ELSE IF JsTruthy(args.search) /\ args.search.t # "string" THEN Thrown
  ELSE LET filter == [category |-> args.category, search |-> AsString(args.search),
                      group |-> args.group, scope |-> args.scope]
           searched == filterResources(map, [filter EXCEPT !.search = None])
           searchTerm == ToLowerCase(args.search.s)
       IN  IF /\ JsTruthy(args.search)
              /\ \E i \in 1..Len(searched) :
                   /\ ~Includes(ToLowerCase(searched[i].value.kind), searchTerm)
                   /\ ~Includes(ToLowerCase(searched[i].value.group), searchTerm)
                   /\ searched[i].value.plural = Undefined
           THEN Thrown
           ELSE IF /\ Len(filterResources(map, filter)) = 0
                   /\ JsTruthy(args.search)
                   /\ findSimilarResourcesThrows(map, args.search)
           THEN Thrown
           ELSE ListResult(map, filter)

ToolNames ==
  {"list-available-resources", "get-resource-details", "find-samples", "get-resource-guidance"}

(* tool.execute(args): each tool returns a Failure from its catch block *)
execute(name, map, smap, docs, args) ==
  CASE name = "get-resource-details" ->
         Catch(ResourceDetailsBody(map, smap, docs, args),
               error("InternalError", <<Suggestion("check-resource-type-format", <<>>)>>))
    [] name = "find-samples" ->
         Catch(FindSamplesBody(smap, args),
               error("InternalError", <<Suggestion("check-kind-spelling", <<>>)>>))
    [] name = "get-resource-guidance" ->
         Catch(ResourceGuidanceBody(map, docs, args),
               error("InternalError", <<Suggestion("check-spelling", <<>>)>>))
    [] name = "list-available-resources" ->
         Catch(ListResourcesBody(map, args),
               error("InternalError", <<Suggestion("check-data-directory", <<>>)>>))

(* ToolRegistry.executeTool *)
executeTool(name, map, smap, docs, args) ==
  IF name \notin ToolNames
  THEN error("ToolNotFound", <<Suggestion("available-tools", <<>>)>>)
  ELSE Catch(execute(name, map, smap, docs, args),
             error("ToolExecutionFailed", <<Suggestion("check-tool-parameters", <<>>)>>))

(* what a find-samples call leaves in the sample map: the sort is reached   *)
(* only by a call that returns a Success                                    *)
executeToolEffect(name, smap, args, outcome) ==
  IF name = "find-samples" /\ outcome.success
  THEN FindSamplesEffect(smap, AsString(args.kind), args.complexity, AsArray(args.tags))
  ELSE smap

(* the argument objects: absent, empty, well typed, and with fields of the  *)
(* wrong type                                                               *)
DetailsArgs ==
  {[present |-> FALSE, resourceType |-> JsUndefined]} \cup
  {[present |-> TRUE, resourceType |-> r] :
     r \in {JsUndefined, JsNumber(5), JsString(<<>>), JsString(<<"x", "/", "D", "b">>),
            JsString(<<"D", "a">>)}}

SamplesArgs ==
  {[present |-> FALSE, kind |-> JsUndefined, complexity |-> None, tags |-> JsUndefined]} \cup
  {[present |-> TRUE, kind |-> k, complexity |-> c, tags |-> t] :
     k \in {JsUndefined, JsNumber(5), JsString(<<"D", "b">>), JsString(<<"d", "b">>)},
     c \in {None, Some("intermediate")},
     t \in {JsUndefined, JsNumber(5), JsString(<<"d", "e", "v">>), JsArray(<<<<"d", "e", "v">>>>)}}

GuidanceArgs ==
  {[present |-> FALSE, resourceType |-> JsUndefined, category |-> None,
    tags |-> JsUndefined, limit |-> None]} \cup
  {[present |-> TRUE, resourceType |-> r, category |-> c, tags |-> t, limit |-> None] :
     r \in {JsUndefined, JsNumber(5), JsString(<<"D", "b">>), JsString(<<"q">>)},
     c \in {None, Some(<<"d", "a", "t", "a", "b", "a", "s", "e">>)},
     t \in {JsUndefined, JsNumber(5), JsString(<<"o", "p", "s">>), JsArray(<<<<"o", "p", "s">>>>)}}

ListArgs ==
  {[present |-> FALSE, category |-> None, search |-> JsUndefined,
    group |-> None, scope |-> None]} \cup
  {[present |-> TRUE, category |-> c, search |-> q, group |-> None, scope |-> None] :
     c \in {None, Some(<<"d", "a", "t", "a", "b", "a", "s", "e">>)},
     q \in {JsUndefined, JsNumber(5), JsString(<<"D", "B">>), JsString(<<"q">>)}}

(* a name no tool is registered under *)
UnknownToolNames == {"generate-manifest", ""}

(* one call of the facade *)
ExecuteTool(name, args) ==
  /\ phase = "ready"
  /\ call = NoCall
  /\ call' = [tool |-> name, args |-> args]
  /\ result' = executeTool(name, crds, samples, instructions, args)
  /\ samples' = executeToolEffect(name, samples, args, result')
  /\ UNCHANGED <<reload, phase, crds, instructions, warnings, loaded, built>>

NextFacade ==
  \/ \E args \in DetailsArgs : ExecuteTool("get-resource-details", args)
  \/ \E args \in SamplesArgs : ExecuteTool("find-samples", args)
  \/ \E args \in GuidanceArgs : ExecuteTool("get-resource-guidance", args)
  \/ \E args \in ListArgs : ExecuteTool("list-available-resources", args)
  \/ \E name \in UnknownToolNames, args \in DetailsArgs : ExecuteTool(name, args)
  \/ Respond

SpecFacade == InitFacade /\ [][NextFacade]_vars

(* a ToolResult: a Success with its data, or a Failure with its message *)
IsToolResult(r) ==
  /\ r.success \in BOOLEAN
  /\ r.success => r.error = "none"
  /\ ~r.success => (r.error # "none" /\ r.error # "thrown" /\ r.data = <<>>)

(* C13: every call of the facade ends with a tagged result, Success or      *)
(* Failure, and never with an exception that escapes: for every tool name,  *)
(* registered or not, for missing arguments, for fields of the wrong type   *)
(* and for a malformed record in the index.                                 *)
C13_NoEscapingException ==
  call # NoCall => IsToolResult(result)

(* a call whose tool body threw: the arguments are missing, a field has the *)
(* wrong type, or the definition without plural is compared with the query  *)
C13_Witness ==
  /\ call # NoCall
  /\ call.tool \in ToolNames
  /\ ~result.success /\ result.error = "InternalError"
  /\ call.args.present
  /\ \E i \in 1..Len(crds) : crds[i].value.plural = Undefined

(* C14: every NotFound Failure carries at least one suggestion, whichever   *)
(* operation returns it (DescribeResource, FindExamples, FindGuidance,      *)
(* ListResources) and whatever the index holds, the empty index included.   *)
C14_NotFoundHasSuggestions ==
  (call # NoCall /\ ~result.success /\ result.error \in {"NotFound", "NoMatch"}) =>
    Len(result.suggestions) > 0

----------------------------------------------------------------------------
(* calculateSimilarity applied to every pair of strings of at most MaxLen   *)
(* characters                                                               *)

Alphabet == {"a", "b"}
Strings == UNION {[1..n -> Alphabet] : n \in 0..MaxLen}

InitSimilarity ==
  /\ phase = "ready"
  /\ crds = <<>>
  /\ samples = <<>>
  /\ instructions = <<>>
  /\ warnings = <<>>
  /\ loaded = {}
  /\ built = [crds |-> <<>>, samples |-> <<>>, instructions |-> <<>>]
  /\ \E str1 \in Strings, str2 \in Strings :
       call = [tool |-> "calculateSimilarity", args |-> [str1 |-> str1, str2 |-> str2]]
  /\ result = NoResult
  /\ reload = NoReload

(* the call returns *)
Similarity ==
  /\ call.tool = "calculateSimilarity"
  /\ result = NoResult
  /\ result' = success(calculateSimilarity(call.args.str1, call.args.str2), <<>>)
  /\ UNCHANGED <<reload, phase, crds, samples, instructions, warnings, loaded, built, call>>

NextSimilarity == Similarity

SpecSimilarity == InitSimilarity /\ [][NextSimilarity]_vars

(* equality of two quotients *)
SimEqual(a, b) == a[1] * b[2] = b[1] * a[2]

(* C15: similarity(a, b) = similarity(b, a) for all strings a and b, those  *)
(* of equal length and the empty string included.                           *)
C15_SimilaritySymmetric ==
  (call.tool = "calculateSimilarity" /\ result.success) =>
    SimEqual(result.data, calculateSimilarity(call.args.str2, call.args.str1))

(* two different strings of equal length whose quotient is strictly between *)
(* 0 and 1                                                                  *)
C15_Witness ==
  /\ call.tool = "calculateSimilarity" /\ result.success
  /\ call.args.str1 # call.args.str2
  /\ Len(call.args.str1) = Len(call.args.str2)
  /\ result.data[1] > 0 /\ result.data[1] < result.data[2]

(* one of the strings is empty, the other is not *)
C15_WitnessEmpty ==
  /\ call.tool = "calculateSimilarity" /\ result.success
  /\ call.args.str1 = <<>> /\ call.args.str2 # <<>>
  /\ result.data[1] = 0

----------------------------------------------------------------------------
(* Watch mode (crdmcp start --watch): a change in the data directory runs   *)
(* loadDataAndStartServer again.  The new DataLoader fills maps of its own  *)
(* and a new ToolRegistry and McpServer are built over them; the transport  *)
(* stays connected to the server of the initial load, whose registry holds  *)
(* crds, samples and instructions.                                          *)

(* the documents found in the watched directory *)
WatchedCrdDocs == {CrdDoc("1"), CrdDoc("4")}
WatchedSampleDocs == {SampleDoc("1"), SampleDoc("2")}
WatchedInstructionDocs == {InstructionDoc("2")}

(* watcher.on('change' | 'add' | 'unlink'): a new load starts from empty    *)
(* collections                                                              *)
FileChanged ==
  /\ phase = "ready"
  /\ reload.status # "running"
  /\ reload' = [status |-> "running", crds |-> <<>>, samples |-> <<>>,
                instructions |-> <<>>, loaded |-> {}]
  /\ UNCHANGED <<phase, crds, samples, instructions, warnings, loaded, built, call, result>>

(* whether the running reload may read one more file *)
ReloadCanRead(filePath, files, cap) ==
  /\ reload.status = "running"
  /\ filePath \notin reload.loaded
  /\ Cardinality(reload.loaded) < MaxFiles
  /\ Cardinality(reload.loaded \cap files) < cap

(* a step that fills the served definition map itself *)
ReloadCRD_InPlace(doc) ==
  /\ ReloadCanRead(doc.filePath, CrdFiles, MaxCrds)
  /\ LET crdMetadata == extractCRDMetadata(doc)
         key == generateResourceKey(crdMetadata.group, crdMetadata.kind)
     IN  /\ reload' = [reload EXCEPT !.crds = MapSet(reload.crds, key, crdMetadata),
                                     !.loaded = reload.loaded \cup {doc.filePath}]
         /\ crds' = MapSet(reload.crds, key, crdMetadata)
  /\ UNCHANGED <<phase, samples, instructions, warnings, loaded, built, call, result>>

(* CRDLoader.loadCRDs of the reload, one document of the loop *)
ReloadCRD(doc) ==
  /\ ReloadCanRead(doc.filePath, CrdFiles, MaxCrds)
  /\ LET crdMetadata == extractCRDMetadata(doc)
         key == generateResourceKey(crdMetadata.group, crdMetadata.kind)
     IN  reload' = [reload EXCEPT !.crds = MapSet(reload.crds, key, crdMetadata),
                                  !.loaded = reload.loaded \cup {doc.filePath}]
  /\ UNCHANGED <<phase, crds, samples, instructions, warnings, loaded, built, call, result>>

(* SampleLoader.loadSamples of the reload, one document of the loop *)
ReloadSample(sample) ==
  /\ ReloadCanRead(sample.filePath, SampleFiles, MaxSamples)
  /\ reload' = [reload EXCEPT
                  !.samples = MapSet(reload.samples, sample.kind,
                                     Append(LookupSamples(reload.samples, sample.kind), sample)),
                  !.loaded = reload.loaded \cup {sample.filePath}]
  /\ UNCHANGED <<phase, crds, samples, instructions, warnings, loaded, built, call, result>>

(* InstructionLoader.loadInstructions of the reload, one file of the loop *)
ReloadInstruction(instruction) ==
  /\ ReloadCanRead(instruction.filePath, InstructionFiles, MaxDocs)
  /\ reload' = [reload EXCEPT !.instructions = Append(reload.instructions, instruction),
                               !.loaded = reload.loaded \cup {instruction.filePath}]
  /\ UNCHANGED <<phase, crds, samples, instructions, warnings, loaded, built, call, result>>

(* loadAllData returns; the new registry and the new McpServer are built    *)
(* over the loaded data, and no transport is connected to the new server    *)
FinishReload ==
  /\ reload.status = "running"
  /\ reload' = [reload EXCEPT !.status = "done"]
  /\ UNCHANGED <<phase, crds, samples, instructions, warnings, loaded, built, call, result>>

NextReload ==
  \/ \E doc \in WatchedCrdDocs : LoadCRD(doc)
  \/ \E sample \in WatchedSampleDocs : LoadSample(sample)
  \/ \E instruction \in WatchedInstructionDocs : LoadInstruction(instruction)
  \/ FinishLoad
  \/ FileChanged
  \/ \E doc \in WatchedCrdDocs : ReloadCRD(doc)
  \/ \E sample \in WatchedSampleDocs : ReloadSample(sample)
  \/ \E instruction \in WatchedInstructionDocs : ReloadInstruction(instruction)
  \/ FinishReload
  \/ \E filter \in {f \in ListFilters : f.group = None /\ f.scope = None /\ f.category = None} :
       ListResources(filter)
  \/ \E resourceType \in {Some(<<"x", "/", "D", "b">>), Some(<<"x", "/", "A", "p", "i">>)} :
       DescribeResource(resourceType)
  \/ \E kind \in {Some(<<"D", "b">>)}, complexity \in {None, Some("simple")} :
       FindExamples(kind, complexity, None, None)
  \/ \E resourceType \in {Some(<<"D", "b">>)} : FindGuidance(resourceType, None, None, None)
  \/ Respond

SpecReload == Init /\ [][NextReload]_vars

(* the result of the call in flight when it is answered from an index *)
ResultOn(index) ==
  CASE call.tool = "list-available-resources" -> ListResult(index.crds, call.args)
    [] call.tool = "get-resource-details" ->
         DescribeResult(index.crds, index.samples, index.instructions, call.args.resourceType)
    [] call.tool = "find-samples" ->
         FindSamplesResult(index.samples, call.args.kind, call.args.complexity,
                           call.args.tags, call.args.limit)
    [] call.tool = "get-resource-guidance" ->
         GuidanceResult(index.crds, index.instructions, call.args.resourceType,
                        call.args.category, call.args.tags, call.args.limit)

(* the index of the registry the connected server answers from *)
ServedIndex == [crds |-> crds, samples |-> samples, instructions |-> instructions]
ReloadIndex ==
  [crds |-> reload.crds, samples |-> reload.samples, instructions |-> reload.instructions]

(* C16: while a reload runs, and after it, every query is answered from the *)
(* previous fully built index or from the new fully built one, never from a *)
(* partially loaded index or from a mix of old and new collections.         *)
C16_ReloadIsAtomic ==
  (phase = "ready" /\ call # NoCall) =>
    \/ result = ResultOn(ServedIndex)
    \/ reload.status = "done" /\ result = ResultOn(ReloadIndex)

(* a query answered while the reload has loaded some but not all of the     *)
(* files it goes on to load, with an answer the partial index would not give *)
C16_Witness ==
  /\ phase = "ready" /\ call # NoCall
  /\ reload.status = "running"
  /\ reload.loaded # {}
  /\ result = ResultOn(ServedIndex)
  /\ result # ResultOn(ReloadIndex)

----------------------------------------------------------------------------
(* crdmcp validate: the directory structure is checked, the data is loaded  *)
(* and the loaded data is checked; the command exits with 0 or 1.           *)

ExpectedDirs == {"crds", "samples", "instructions"}

(* validateDataDirectory: one warning per expected directory that is        *)
(* missing, and never an error                                              *)
validateDataDirectory(missing) ==
  [valid |-> TRUE, warnings |-> Cardinality(missing \cap ExpectedDirs), errors |-> 0]

(* the command line and the directory: --strict, the expected directories   *)
(* that are missing, and whether some file of the directory cannot be read  *)
ValidateArgs ==
  [strict : BOOLEAN, missing : SUBSET ExpectedDirs, unreadable : BOOLEAN]

InitValidate ==
  /\ phase = "loading"
  /\ crds = <<>>
  /\ samples = <<>>
  /\ instructions = <<>>
  /\ warnings = <<>>
  /\ loaded = {}
  /\ built = [crds |-> <<>>, samples |-> <<>>, instructions |-> <<>>]
  /\ \E args \in ValidateArgs : call = [tool |-> "validate", args |-> args]
  /\ result = NoResult
  /\ reload = NoReload

(* sample kinds for which no definition of that kind is loaded *)
orphanedSamples(map, smap) ==
  Filter([i \in 1..Len(smap) |-> smap[i].key],
         LAMBDA kind : ~\E j \in 1..Len(map) : map[j].value.kind = kind)

(* kinds that are defined in more than one group *)
duplicateKinds(map) ==
  Filter(Distinct([i \in 1..Len(map) |-> map[i].value.kind]),
         LAMBDA kind : Cardinality({j \in 1..Len(map) : map[j].value.kind = kind}) > 1)

(* validateCommand after the data is loaded: hasErrors, hasWarnings and the *)
(* final result.  The duplicate-kinds check sets hasWarnings and leaves     *)
(* hasErrors alone, with or without --strict.                               *)
validateCommand(argv, map, smap, loadWarnings) ==
  LET structureValidation == validateDataDirectory(argv.missing)
      loadErrors == IF argv.unreadable THEN 1 ELSE 0
      orphaned == orphanedSamples(map, smap)
      duplicates == duplicateKinds(map)
      hasWarnings ==
        \/ structureValidation.warnings > 0
        \/ Len(loadWarnings) > 0
        \/ Len(orphaned) > 0
        \/ Len(duplicates) > 0
      hasErrors ==
        \/ structureValidation.errors > 0
        \/ structureValidation.warnings > 0 /\ argv.strict
        \/ loadErrors > 0
        \/ Len(loadWarnings) > 0 /\ argv.strict
        \/ Len(orphaned) > 0 /\ argv.strict
  IN  IF hasErrors
      THEN [state |-> "failed", exitCode |-> 1, hasWarnings |-> hasWarnings]
      ELSE IF hasWarnings /\ ~argv.strict
      THEN [state |-> "completed-with-warnings", exitCode |-> 0, hasWarnings |-> hasWarnings]
      ELSE [state |-> "passed", exitCode |-> 0, hasWarnings |-> hasWarnings]

(* the data is loaded, the checks run and the process exits *)
ValidateFinish ==
  /\ phase = "loading"
  /\ call.tool = "validate"
  /\ phase' = "exited"
  /\ result' = success(validateCommand(call.args, crds, samples, warnings), <<>>)
  /\ UNCHANGED <<crds, samples, instructions, warnings, loaded, built, call, reload>>

(* a loader reads nothing from a directory that is missing *)
ValidateLoadCRD(doc) == "crds" \notin call.args.missing /\ LoadCRD(doc)
ValidateLoadSample(sample) == "samples" \notin call.args.missing /\ LoadSample(sample)
ValidateLoadInstruction(instruction) ==
  "instructions" \notin call.args.missing /\ LoadInstruction(instruction)

NextValidate ==
  \/ \E doc \in CrdDocs : ValidateLoadCRD(doc)
  \/ \E sample \in SampleDocs : ValidateLoadSample(sample)
  \/ \E instruction \in InstructionDocs : ValidateLoadInstruction(instruction)
  \/ ValidateFinish

SpecValidate == InitValidate /\ [][NextValidate]_vars

(* C17: validate in strict mode treats warnings as errors: when any warning *)
(* was produced (directory structure, data loading, orphaned samples,       *)
(* duplicate kinds across groups), a strict run ends failed with exit code  *)
(* 1 and never passed.                                                      *)
C17_StrictWarningsFail ==
  (phase = "exited" /\ call.args.strict /\ result.data.hasWarnings) =>
    (result.data.state = "failed" /\ result.data.exitCode = 1)

----------------------------------------------------------------------------
(* FindGuidance over guidance collections whose documents meet each gate    *)
(* and each bonus in each of its ways                                       *)

(* instruction documents as the loader returns them.  g2 can collect every  *)
(* bonus; g3 declares a kind that contains "Db" and carries the tag         *)
(* database under another category; g4 declares a kind that "Db" contains   *)
(* and a tag that "production" contains.                                    *)
GuidanceDocs ==
  { InstructionDoc("1"),
    [filePath |-> <<"g", "2">>, title |-> <<"D", "b", " ", "g", "u", "i", "d", "e">>, content |-> <<"d", "b">>,
     frontmatter |-> [applicableCRDs |-> Some(<<<<"D", "b">>>>),
                      category |-> Some(<<"d", "a", "t", "a", "b", "a", "s", "e">>), priority |-> Some(3)],
     detectedCRDs |-> <<>>, tags |-> <<<<"d", "a", "t", "a", "b", "a", "s", "e">>, <<"p", "r", "o", "d">>>>],
    [filePath |-> <<"g", "3">>, title |-> <<"D", "B", " ", "h", "a">>, content |-> <<"x">>,
     frontmatter |-> [applicableCRDs |-> Some(<<<<"D", "b", "s">>>>),
                      category |-> Some(<<"s", "t", "o", "r", "a", "g", "e">>), priority |-> Some(2)],
     detectedCRDs |-> <<>>,
     tags |-> <<<<"d", "a", "t", "a", "b", "a", "s", "e">>, <<"h", "a">>,
                <<"s", "t", "o", "r", "a", "g", "e">>>>],
    [filePath |-> <<"g", "4">>, title |-> <<"t", "i", "p", "s">>, content |-> <<"y">>,
     frontmatter |-> [applicableCRDs |-> Some(<<<<"D">>>>), category |-> None, priority |-> None],
     detectedCRDs |-> <<>>, tags |-> <<<<"p", "r", "o", "d">>>>] }

(* the sequences of at most n different documents *)
RECURSIVE SeqsUpTo(_, _)
SeqsUpTo(docs, n) ==
  IF n = 0 THEN {<<>>}
  ELSE LET shorter == SeqsUpTo(docs, n - 1)
       IN  shorter \cup {Append(q, d) : q \in shorter, d \in docs} 

NoRepeat(seq) == \A i, j \in 1..Len(seq) : seq[i] = seq[j] => i = j

MaxGuidance == 3

InitGuidance ==
  /\ phase = "ready"
  /\ crds \in {loadCRDs(<<>>), loadCRDs(<<CrdDoc("1")>>)}
  /\ samples = <<>>
  /\ instructions \in {q \in SeqsUpTo(GuidanceDocs, MaxGuidance) : NoRepeat(q)}
  /\ warnings = <<>>
  /\ loaded = {}
  /\ built = [crds |-> crds, samples |-> samples, instructions |-> instructions]
  /\ call = NoCall
  /\ result = NoResult
  /\ reload = NoReload

NextGuidance ==
  \/ \E resourceType \in GuidanceTypeArgs, category \in {None, Some(<<"d", "a", "t", "a", "b", "a", "s", "e">>)},
        tags \in {None, Some(<<>>),
                  Some(<<<<"p", "r", "o", "d", "u", "c", "t", "i", "o", "n">>>>),
                  Some(<<<<"P", "R", "O", "D">>, <<"h", "a">>>>)},
        limit \in LimitArgs :
        FindGuidance(resourceType, category, tags, limit)
  \/ Respond

SpecGuidance == InitGuidance /\ [][NextGuidance]_vars

(* the gates as the specification words them *)
StatedKinds(d) ==
  (IF IsSome(d.frontmatter.applicableCRDs) THEN Val(d.frontmatter.applicableCRDs) ELSE <<>>)
  \o d.detectedCRDs
StatedTypeGate(d, resourceType) ==
  \/ \E k \in 1..Len(StatedKinds(d)) :
       \/ Includes(ToLowerCase(StatedKinds(d)[k]), ToLowerCase(resourceType))
       \/ Includes(ToLowerCase(resourceType), ToLowerCase(StatedKinds(d)[k]))
  \/ Includes(ToLowerCase(d.content), ToLowerCase(resourceType))
StatedCategoryGate(d, category) ==
  \/ d.frontmatter.category = Some(category)
  \/ \E t \in 1..Len(d.tags) : d.tags[t] = category
StatedTagsGate(d, tags) ==
  \E q \in 1..Len(tags), t \in 1..Len(d.tags) :
    \/ Includes(ToLowerCase(d.tags[t]), ToLowerCase(tags[q]))
    \/ Includes(ToLowerCase(tags[q]), ToLowerCase(d.tags[t]))
StatedPassing ==
  {d \in {instructions[i] : i \in 1..Len(instructions)} :
     /\ Truthy(GArgs.resourceType) => StatedTypeGate(d, Val(GArgs.resourceType))
     /\ Truthy(GArgs.category) => StatedCategoryGate(d, Val(GArgs.category))
     /\ (IsSome(GArgs.tags) /\ Len(Val(GArgs.tags)) > 0) => StatedTagsGate(d, Val(GArgs.tags))}
ReturnedPaths == {Returned[i].filePath : i \in 1..Len(Returned)}

(* C18: FindGuidance ANDs the gates of the supplied fields: the documents   *)
(* it ranks are exactly the documents that pass every supplied gate (kind   *)
(* or body text for resourceType, category or tag for category, substring   *)
(* overlap in either direction for tags); the limit then cuts the ranking.  *)
C18_GatesAreAnded ==
  (IsCall("get-resource-guidance") /\ ~GQueryEmpty) =>
    IF result.success
    THEN /\ ReturnedPaths \subseteq {d.filePath : d \in StatedPassing}
         /\ Len(Returned) = Min2(GLimit, Cardinality(StatedPassing))
    ELSE StatedPassing = {}

(* all three fields are supplied; one document passes every gate, one       *)
(* passes two of them, and the one that passes does so by the body text,    *)
(* by a tag that equals the category or by a tag the query tag contains     *)
C18_Witness ==
  /\ IsCall("get-resource-guidance") /\ result.success
  /\ Truthy(GArgs.resourceType) /\ Truthy(GArgs.category)
  /\ IsSome(GArgs.tags) /\ Len(Val(GArgs.tags)) > 0
  /\ Cardinality(StatedPassing) = 1
  /\ Len(instructions) = 3
  /\ \E d \in StatedPassing :
       \/ d.frontmatter.category # GArgs.category
       \/ ~\E q \in 1..Len(Val(GArgs.tags)), t \in 1..Len(d.tags) :
             Includes(ToLowerCase(d.tags[t]), ToLowerCase(Val(GArgs.tags)[q]))

(* the score as the specification words it *)
StatedScore(d) ==
  LET kindBonus ==
        IF /\ Truthy(GArgs.resourceType)
           /\ \E k \in 1..Len(StatedKinds(d)) :
                Includes(ToLowerCase(StatedKinds(d)[k]), ToLowerCase(Val(GArgs.resourceType)))
        THEN 20 ELSE 0
      titleBonus ==
        IF /\ Truthy(GArgs.resourceType)
           /\ Includes(ToLowerCase(d.title), ToLowerCase(Val(GArgs.resourceType)))
        THEN 15 ELSE 0
      categoryBonus ==
        IF Truthy(GArgs.category) /\ d.frontmatter.category = GArgs.category THEN 15 ELSE 0
      matching ==
        IF IsSome(GArgs.tags)
        THEN {q \in 1..Len(Val(GArgs.tags)) :
                \E t \in 1..Len(d.tags) :
                  Includes(ToLowerCase(d.tags[t]), ToLowerCase(Val(GArgs.tags)[q]))}
        ELSE {}
  IN  PriorityOf(d) * 10 + kindBonus + titleBonus + categoryBonus + 5 * Cardinality(matching)

----------------------------------------------------------------------------
(* DescribeResource misses over indexes of up to eight definitions          *)

(* definition documents in the order the loader reads them.  Against the    *)
(* query "Aaa" their best similarities are 3/10, 1/3, 1, 3/4, 2/3, 2/3,     *)
(* 3/4 and 0, reached by the kind, the group or the plural; against "Zz"    *)
(* seven of them are above 0.3 and six of those are equally similar.        *)
SuggestDocs ==
  << 
     [filePath |-> <<"d", "1">>, group |-> <<"x">>, kind |-> <<"A", "a", "a", "b", "b", "b", "b", "b", "b", "b">>, plural |-> <<"z", "s">>,
      singular |-> None, shortNames |-> None, scope |-> "Namespaced", versions |-> <<<<"v", "1">>>>],
     [filePath |-> <<"d", "2">>, group |-> <<"x">>, kind |-> <<"A">>, plural |-> <<"z", "s">>,
      singular |-> None, shortNames |-> None, scope |-> "Namespaced", versions |-> <<<<"v", "1">>>>],
     [filePath |-> <<"d", "3">>, group |-> <<"a", "a", "a">>, kind |-> <<"Z", "z">>, plural |-> <<"z", "s">>,
      singular |-> None, shortNames |-> None, scope |-> "Namespaced", versions |-> <<<<"v", "1">>>>],
     [filePath |-> <<"d", "4">>, group |-> <<"x">>, kind |-> <<"Z", "y">>, plural |-> <<"a", "a", "a", "s">>,
      singular |-> None, shortNames |-> None, scope |-> "Namespaced", versions |-> <<<<"v", "1">>>>],
     [filePath |-> <<"d", "5">>, group |-> <<"x">>, kind |-> <<"A", "a", "b">>, plural |-> <<"z", "s">>,
      singular |-> None, shortNames |-> None, scope |-> "Namespaced", versions |-> <<<<"v", "1">>>>],
     [filePath |-> <<"d", "6">>, group |-> <<"y">>, kind |-> <<"A", "a">>, plural |-> <<"z", "s">>,
      singular |-> None, shortNames |-> None, scope |-> "Namespaced", versions |-> <<<<"v", "1">>>>],
     [filePath |-> <<"d", "7">>, group |-> <<"y">>, kind |-> <<"A", "a", "a", "a">>, plural |-> <<"z", "s">>,
      singular |-> None, shortNames |-> None, scope |-> "Namespaced", versions |-> <<<<"v", "1">>>>],
     [filePath |-> <<"d", "8">>, group |-> <<"y">>, kind |-> <<"B", "b", "b">>, plural |-> <<"b", "b", "b", "s">>,
      singular |-> None, shortNames |-> None, scope |-> "Namespaced", versions |-> <<<<"v", "1">>>>] >>

InitSuggest ==
  /\ phase = "ready"
  /\ \E present \in SUBSET (1..Len(SuggestDocs)) :
       crds = loadCRDs(Filter(SuggestDocs, LAMBDA d :
                 \E i \in present : SuggestDocs[i] = d))
  /\ samples = <<>>
  /\ instructions = <<>>
  /\ warnings = <<>>
  /\ loaded = {}
  /\ built = [crds |-> crds, samples |-> samples, instructions |-> instructions]
  /\ call = NoCall
  /\ result = NoResult
  /\ reload = NoReload

NextSuggest ==
  \/ \E resourceType \in {<<"A", "a", "a">>, <<"Z", "z">>} : DescribeResource(Some(resourceType))
  \/ Respond

SpecSuggest == InitSuggest /\ [][NextSuggest]_vars

(* the best similarity of a definition to the query in flight, over its     *)
(* kind, its group and its plural                                           *)
BestSimilarity(crd) ==
  LET q == ToLowerCase(Val(call.args.resourceType))
      k == calculateSimilarity(q, ToLowerCase(crd.kind))
      g == calculateSimilarity(q, ToLowerCase(crd.group))
      p == calculateSimilarity(q, ToLowerCase(crd.plural))
  IN  CHOOSE m \in {k, g, p} : \A o \in {k, g, p} : m[1] * o[2] >= o[1] * m[2]
Similar ==
  {i \in 1..Len(crds) : BestSimilarity(crds[i].value)[1] * 10 > 3 * BestSimilarity(crds[i].value)[2]}
Suggested ==
  IF result.suggestions[1].text = "did-you-mean" THEN result.suggestions[1].items ELSE <<>>
SuggestedDefs == {i \in 1..Len(crds) : \E n \in 1..Len(Suggested) : Suggested[n] = crds[i].key}

(* C20: on a DescribeResource miss the suggested definitions are            *)
(* definitions whose best similarity to the query over kind, group and      *)
(* plural is strictly greater than 0.3, all of them when there are at most  *)
(* 5 and otherwise 5 of them, none less similar than one left out, the      *)
(* most similar first; a definition at exactly 0.3 is never suggested.      *)
C20_SuggestionsAboveThreshold ==
  (IsCall("get-resource-details") /\ result.error = "NotFound") =>
    /\ SuggestedDefs \subseteq Similar
    /\ Len(Suggested) = Min2(5, Cardinality(Similar))
    /\ Cardinality(SuggestedDefs) = Len(Suggested)
    /\ \A i \in SuggestedDefs, j \in Similar \ SuggestedDefs :
         ~SimGreater(BestSimilarity(crds[j].value), BestSimilarity(crds[i].value))
    /\ \A n \in 1..Len(Suggested) - 1 :
         ~SimGreater(BestSimilarity(Val(MapGet(crds, Suggested[n + 1]))),
                     BestSimilarity(Val(MapGet(crds, Suggested[n]))))

(* a miss over an index with a definition at exactly 0.3, left out, and     *)
(* six definitions above 0.3, of which the least similar is cut             *)
C20_Witness ==
  /\ IsCall("get-resource-details") /\ result.error = "NotFound"
  /\ Cardinality(Similar) = 6
  /\ Len(Suggested) = 5
  /\ \E i \in 1..Len(crds) :
       /\ BestSimilarity(crds[i].value) = <<3, 10>>
       /\ i \notin SuggestedDefs

(* the definition behind the n-th suggested key *)
SuggestedCrd(n) == Val(MapGet(crds, Suggested[n]))

(* C21: fuzzy suggestions are listed by similarity descending, and          *)
(* definitions that are equally similar are listed in lexical order of      *)
(* their kind, whatever the order in which they were loaded.                *)
C21_TiesByKind ==
  (IsCall("get-resource-details") /\ result.error = "NotFound") =>
    \A n, m \in 1..Len(Suggested) :
      n < m =>
        /\ ~SimGreater(BestSimilarity(SuggestedCrd(m)), BestSimilarity(SuggestedCrd(n)))
        /\ SimEqual(BestSimilarity(SuggestedCrd(n)), BestSimilarity(SuggestedCrd(m)))
             => ~LocaleLess(SuggestedCrd(m).kind, SuggestedCrd(n).kind)

----------------------------------------------------------------------------
(* the unit-cost edit distance, as the least number of single-character     *)
(* insertions, deletions and substitutions that turn one string into the    *)
(* other                                                                    *)

(* the strings one edit away from s, none longer than cap *)
OneEdit(s, cap) ==
  {SubSeq(s, 1, i - 1) \o SubSeq(s, i + 1, Len(s)) : i \in 1..Len(s)}
  \cup {SubSeq(s, 1, i - 1) \o <<c>> \o SubSeq(s, i + 1, Len(s)) : i \in 1..Len(s), c \in Alphabet}
  \cup (IF Len(s) < cap
        THEN {SubSeq(s, 1, i) \o <<c>> \o SubSeq(s, i + 1, Len(s)) : i \in 0..Len(s), c \in Alphabet}
        ELSE {})

RECURSIVE EditReach(_, _, _)
EditReach(from, k, cap) ==
  IF k = 0 THEN from
  ELSE LET nearer == EditReach(from, k - 1, cap)
       IN  nearer \cup UNION {OneEdit(s, cap) : s \in nearer}

EditDistance(a, b) ==
  LET cap == IF Len(a) > Len(b) THEN Len(a) ELSE Len(b)
  IN  CHOOSE k \in 0..cap :
        /\ b \in EditReach({a}, k, cap)
        /\ \A j \in 0..(k - 1) : b \notin EditReach({a}, j, cap)

(* C22: the similarity of two strings is (L - d) / L, with d their          *)
(* unit-cost Levenshtein distance (insertion, deletion, substitution) and   *)
(* L the length of the longer one, and 1 when both are empty; it lies in    *)
(* [0, 1], is 1 for equal strings and 0 for a non-empty string against the  *)
(* empty one.                                                               *)
C22_SimilarityFormula ==
  (call.tool = "calculateSimilarity" /\ result.success) =>
    LET a == call.args.str1
        b == call.args.str2
        L == IF Len(a) > Len(b) THEN Len(a) ELSE Len(b)
        d == EditDistance(a, b)
        sim == result.data
    IN  /\ sim[2] > 0
        /\ IF L = 0 THEN sim[1] = sim[2] ELSE sim[1] * L = (L - d) * sim[2]
        /\ 0 <= sim[1] /\ sim[1] <= sim[2]
        /\ a = b => sim[1] = sim[2]
        /\ ((a = <<>>) # (b = <<>>)) => sim[1] = 0

(* strings of different lengths that are two edits apart and share a part:  *)
(* the quotient is strictly between 0 and 1                                 *)
C22_Witness ==
  /\ call.tool = "calculateSimilarity" /\ result.success
  /\ Len(call.args.str1) < Len(call.args.str2)
  /\ Len(call.args.str1) > 0
  /\ EditDistance(call.args.str1, call.args.str2) = 2
  /\ result.data[1] > 0 /\ result.data[1] < result.data[2]

(* both strings are empty and the similarity is 1 *)
C22_WitnessEmpty ==
  /\ call.tool = "calculateSimilarity" /\ result.success
  /\ call.args.str1 = <<>> /\ call.args.str2 = <<>>
  /\ result.data[1] = result.data[2]

----------------------------------------------------------------------------
(* DescribeResource and its guidance list *)

(* the definition a successful DescribeResource describes *)
Described == Val(MapGet(crds, result.data.resourceType))
DescribedGuidance ==
  [i \in 1..Len(result.data.instructions) |-> result.data.instructions[i].filePath]

(* what the Ranker returns for resourceType = kind, tags = [category] *)
RankerGuidance ==
  LET ranked == findGuidance(instructions, Some(Described.kind), None,
                             Some(<<Val(Described.category)>>), 5)
  IN  [i \in 1..Len(ranked) |-> ranked[i].filePath]

(* C23: for a resource that has a category, the guidance list of a          *)
(* DescribeResource result holds the documents FindGuidance returns for     *)
(* resourceType = the resource's kind and tags = [the resource's            *)
(* category], cut to 5, in the same order.                                  *)
C23_DescribeUsesRanker ==
  (IsCall("get-resource-details") /\ result.success /\ Truthy(Described.category)) =>
    DescribedGuidance = RankerGuidance

----------------------------------------------------------------------------
(* FindExamples over sample maps of up to five manifests, with query tags   *)
(* that are part of a sample tag and query tags that a sample tag is part   *)
(* of                                                                       *)

ExampleDocs ==
  <<SampleDoc("1"), SampleDoc("2"), SampleDoc("3"), SampleDoc("5"), SampleDoc("4")>>

InitExamples ==
  /\ phase = "ready"
  /\ crds = <<>>
  /\ \E present \in SUBSET (1..Len(ExampleDocs)) :
       samples = loadSamples(Filter(ExampleDocs, LAMBDA d :
                   \E i \in present : ExampleDocs[i] = d))
  /\ instructions = <<>>
  /\ warnings = <<>>
  /\ loaded = {}
  /\ built = [crds |-> crds, samples |-> samples, instructions |-> instructions]
  /\ call = NoCall
  /\ result = NoResult
  /\ reload = NoReload

NextExamples ==
  \/ \E kind \in {Some(<<"D", "b">>), Some(<<"A", "p", "i">>)}, complexity \in ComplexityArgs,
        tags \in {None, Some(<<>>), Some(<<<<"P", "R", "O">>>>),
                  Some(<<<<"p", "r", "o", "d", "u", "c", "t", "i", "o", "n">>, <<"h">>>>),
                  Some(<<<<"q">>>>)} :
        FindExamples(kind, complexity, tags, None)
  \/ Respond

SpecExamples == InitExamples /\ [][NextExamples]_vars

(* the examples of the requested kind that pass the stated filters *)
StatedExamples ==
  LET complexity == call.args.complexity
      tags == call.args.tags
  IN  {s \in {BuiltBucket[i] : i \in 1..Len(BuiltBucket)} :
         /\ IsSome(complexity) => s.complexity = Val(complexity)
         /\ (IsSome(tags) /\ Len(Val(tags)) > 0) =>
              \E q \in 1..Len(Val(tags)), t \in 1..Len(s.tags) :
                Includes(ToLowerCase(s.tags[t]), ToLowerCase(Val(tags)[q]))}

----------------------------------------------------------------------------
(* ListResources over indexes of up to five definitions, loaded in an       *)
(* order that is not the listing order                                      *)

(* y/Ab and x/Aa have no category, x/Dbz and y/Db are databases, x/Api is   *)
(* a service; x/Aa carries a description annotation                         *)
ListDocs ==
  <<
     [filePath |-> <<"l", "1">>, group |-> <<"y">>, kind |-> <<"A", "b">>, plural |-> <<"a", "b", "s">>,
      singular |-> None, shortNames |-> None, scope |-> "Namespaced", versions |-> <<<<"v", "1">>>>],
     [filePath |-> <<"l", "2">>, group |-> <<"x">>, kind |-> <<"D", "b", "z">>, plural |-> <<"d", "b", "z", "s">>,
      singular |-> None, shortNames |-> None, scope |-> "Cluster", versions |-> <<<<"v", "1">>>>],
     [filePath |-> <<"l", "3">>, group |-> <<"x">>, kind |-> <<"A", "p", "i">>, plural |-> <<"a", "p", "i", "s">>,
      singular |-> None, shortNames |-> None, scope |-> "Namespaced", versions |-> <<<<"v", "1">>>>],
     [filePath |-> <<"l", "4">>, group |-> <<"y">>, kind |-> <<"D", "b">>, plural |-> <<"d", "b", "s">>,
      singular |-> None, shortNames |-> None, scope |-> "Cluster", versions |-> <<<<"v", "1">>>>],
     [filePath |-> <<"l", "5">>, group |-> <<"x">>, kind |-> <<"A", "a">>, plural |-> <<"a", "a", "s">>,
      singular |-> None, shortNames |-> None, scope |-> "Cluster", versions |-> <<<<"v", "1">>>>,
      description |-> <<"Q", "u", "i", "c", "k">>] >>

InitList ==
  /\ phase = "ready"
  /\ \E present \in SUBSET (1..Len(ListDocs)) :
       crds = loadCRDs(Filter(ListDocs, LAMBDA d : \E i \in present : ListDocs[i] = d))
  /\ samples = <<>>
  /\ instructions = <<>>
  /\ warnings = <<>>
  /\ loaded = {}
  /\ built = [crds |-> crds, samples |-> samples, instructions |-> instructions]
  /\ call = NoCall
  /\ result = NoResult
  /\ reload = NoReload

(* the search terms are found in a kind, in a key only, in a description    *)
(* only, in a plural only                                                   *)
NextList ==
  \/ \E filter \in
       [category : {None, Some(<<"d", "a", "t", "a", "b", "a", "s", "e">>)},
        search : {None, Some(<<"B">>), Some(<<"X", "/">>), Some(<<"Q">>), Some(<<"B", "S">>)},
        group : {None, Some(<<"x">>)},
        scope : {None, Some("Cluster")}] :
       ListResources(filter)
  \/ Respond

SpecList == InitList /\ [][NextList]_vars

Listed == result.data.resources

(* C25: ListResources orders its output by category ascending, every        *)
(* definition without a category after every definition with one, and by    *)
(* kind ascending among definitions of the same category.                   *)
C25_ListOrder ==
  (IsCall("list-available-resources") /\ result.success) =>
    \A i, j \in 1..Len(Listed) :
      i < j =>
        /\ Listed[i].category = S_uncategorized => Listed[j].category = S_uncategorized
        /\ (Listed[i].category # Listed[j].category /\ Listed[j].category # S_uncategorized)
             => LocaleLess(Listed[i].category, Listed[j].category)
        /\ Listed[i].category = Listed[j].category
             => ~LocaleLess(Listed[j].kind, Listed[i].kind)

(* a listing of two databases, a service and two definitions without        *)
(* category, all loaded in another order                                    *)
C25_Witness ==
  /\ IsCall("list-available-resources") /\ result.success
  /\ Len(Listed) = 5
  /\ Listed[1].category # Listed[3].category
  /\ Listed[4].category = S_uncategorized
  /\ [i \in 1..5 |-> Listed[i].resourceType] # [i \in 1..5 |-> crds[i].key]

(* the definitions that satisfy every supplied filter *)
StatedListed ==
  LET filter == call.args
      found(text) == Includes(ToLowerCase(text), ToLowerCase(Val(filter.search)))
  IN  {i \in 1..Len(crds) :
         /\ Truthy(filter.category) => crds[i].value.category = filter.category
         /\ Truthy(filter.group) => crds[i].value.group = Val(filter.group)
         /\ IsSome(filter.scope) => crds[i].value.scope = Val(filter.scope)
         /\ Truthy(filter.search) =>
              \/ found(crds[i].value.kind)
              \/ found(crds[i].value.group)
              \/ found(crds[i].value.plural)
              \/ found(Val(crds[i].value.description))
              \/ found(crds[i].key)}

(* C26: ListResources returns exactly the definitions that satisfy every    *)
(* supplied filter (category, group and scope equal, the search term        *)
(* occurring, ignoring case, in the kind, group, plural, description or     *)
(* composite key), totalCount is their number, and the result is a Failure  *)
(* when no definition satisfies them all.                                   *)
C26_ListFilters ==
  IsCall("list-available-resources") =>
    IF StatedListed = {}
    THEN ~result.success
    ELSE /\ result.success
         /\ {Listed[n].resourceType : n \in 1..Len(Listed)} = {crds[i].key : i \in StatedListed}
         /\ Len(Listed) = Cardinality(StatedListed)
         /\ result.data.totalCount = Cardinality(StatedListed)

(* three filters are supplied, one of five definitions passes them all,     *)
(* and the search term is found in its key alone                            *)
C26_Witness ==
  /\ IsCall("list-available-resources") /\ result.success
  /\ call.args.search = Some(<<"X", "/">>)
  /\ call.args.scope = Some("Cluster") /\ Truthy(call.args.category)
  /\ Len(crds) = 5
  /\ Len(Listed) = 1

(* the search term is found in a description alone *)
C26_WitnessDescription ==
  /\ IsCall("list-available-resources") /\ result.success
  /\ call.args.search = Some(<<"Q">>)
  /\ Len(Listed) = 1 /\ Listed[1].kind = <<"A", "a">>

----------------------------------------------------------------------------
(* The build over a crds directory in which several files define the same   *)
(* group and kind                                                           *)

(* three definitions of x/Db and two of y/Db, told apart by their plural *)
CollidingDocs ==
  {
    [filePath |-> <<"k", "1">>, group |-> <<"x">>, kind |-> <<"D", "b">>, plural |-> <<"d", "b", "s">>,
     singular |-> None, shortNames |-> None, scope |-> "Namespaced", versions |-> <<<<"v", "1">>>>],
    [filePath |-> <<"k", "2">>, group |-> <<"x">>, kind |-> <<"D", "b">>, plural |-> <<"d", "b", "x">>,
     singular |-> None, shortNames |-> None, scope |-> "Namespaced", versions |-> <<<<"v", "1">>>>],
    [filePath |-> <<"k", "3">>, group |-> <<"x">>, kind |-> <<"D", "b">>, plural |-> <<"d", "b", "y">>,
     singular |-> None, shortNames |-> None, scope |-> "Namespaced", versions |-> <<<<"v", "1">>>>],
    [filePath |-> <<"k", "4">>, group |-> <<"y">>, kind |-> <<"D", "b">>, plural |-> <<"d", "b", "s">>,
     singular |-> None, shortNames |-> None, scope |-> "Namespaced", versions |-> <<<<"v", "1">>>>],
    [filePath |-> <<"k", "5">>, group |-> <<"y">>, kind |-> <<"D", "b">>, plural |-> <<"d", "b", "z">>,
     singular |-> None, shortNames |-> None, scope |-> "Namespaced", versions |-> <<<<"v", "1">>>>] }

NextLoad ==
  \/ \E doc \in CollidingDocs : LoadCRD(doc)
  \/ FinishLoad
  \/ \E resourceType \in {Some(<<"x", "/", "D", "b">>), Some(<<"y", "/", "D", "b">>)} : DescribeResource(resourceType)
  \/ Respond

SpecLoad == Init /\ [][NextLoad]_vars

EntriesFor(map, key) == {i \in 1..Len(map) : map[i].key = key}

(* C27: loading a definition whose composite key is already in the index    *)
(* does not abort the build: the index keeps exactly one entry for the key, *)
(* that entry holds the definition loaded last, the other entries stay as   *)
(* they were, and exactly one warning naming the key is added; a            *)
(* definition with a new key adds an entry and no warning.                  *)
C27_LastWriteWinsWithWarning ==
  [][\A doc \in CollidingDocs :
       (doc.filePath \in loaded' /\ doc.filePath \notin loaded) =>
         LET key == doc.group \o <<"/">> \o doc.kind
             collision == EntriesFor(crds, key) # {}
         IN  /\ phase' = "loading"
             /\ Cardinality(EntriesFor(crds', key)) = 1
             /\ Val(MapGet(crds', key)).filePath = doc.filePath
             /\ Val(MapGet(crds', key)).plural = doc.plural
             /\ Len(crds') = Len(crds) + (IF collision THEN 0 ELSE 1)
             /\ \A i \in 1..Len(crds) : crds[i].key # key => crds'[i] = crds[i]
             /\ IF collision
                THEN /\ Len(warnings') = Len(warnings) + 1
                     /\ warnings'[Len(warnings')].duplicate = key
                     /\ SubSeq(warnings', 1, Len(warnings)) = warnings
                ELSE warnings' = warnings]_vars

(* the build has finished over three files that define x/Db: one entry, two *)
(* warnings naming x/Db, and the resource is described from the last file   *)
C27_Witness ==
  /\ IsCall("get-resource-details") /\ result.success
  /\ Cardinality(loaded) = 3
  /\ Len(crds) = 1
  /\ Len(warnings) = 2
  /\ \A i \in 1..2 : warnings[i].duplicate = crds[1].key
  /\ result.data.metadata.filePath = warnings[2].filePath

----------------------------------------------------------------------------
(* Watch mode after the reload *)

(* C28: in watch mode, once a reload set off by a changed, added or removed *)
(* file has completed, every query issued afterwards is answered from the   *)
(* newly loaded data.                                                       *)
C28_QueriesSeeReloadedData ==
  [][(reload.status = "done" /\ call = NoCall /\ call' # NoCall) =>
       result' = ResultOn(ReloadIndex)']_vars

----------------------------------------------------------------------------
(* the tag bonus of FindGuidance *)

(* the part of a document's score that the query tags account for *)
TagBonus(d) ==
  ScoreOf(d) - calculateRelevanceScore(d, GArgs.resourceType, GArgs.category, None)

(* C29: every document that passes the tags gate of FindGuidance and is     *)
(* scored receives a tag bonus of at least 5: a query tag that lets the     *)
(* document pass the filter is counted by the score.                        *)
C29_TagGateImpliesTagBonus ==
  (IsCall("get-resource-guidance") /\ ~GQueryEmpty
     /\ IsSome(GArgs.tags) /\ Len(Val(GArgs.tags)) > 0) =>
    \A d \in StatedPassing : TagBonus(d) >= 5

----------------------------------------------------------------------------
(* DescribeResource over resources with and without a category: x/Db is a  *)
(* database, y/Ab has no category                                           *)

InitDescribe ==
  /\ phase = "ready"
  /\ crds \in {loadCRDs(<<>>), loadCRDs(<<CrdDoc("1")>>), loadCRDs(<<CrdDoc("5")>>),
               loadCRDs(<<CrdDoc("1"), CrdDoc("5")>>)}
  /\ samples = <<>>
  /\ instructions \in {q \in SeqsUpTo(InstructionDocs, MaxDocs) : NoRepeat(q)}
  /\ warnings = <<>>
  /\ loaded = {}
  /\ built = [crds |-> crds, samples |-> samples, instructions |-> instructions]
  /\ call = NoCall
  /\ result = NoResult
  /\ reload = NoReload

NextDescribe ==
  \/ \E resourceType \in {Some(<<"x", "/", "D", "b">>), Some(<<"y", "/", "A", "b">>)} :
       DescribeResource(resourceType)
  \/ Respond

SpecDescribe == InitDescribe /\ [][NextDescribe]_vars

(* the loaded document behind an entry of the guidance list *)
GuidanceDoc(n) ==
  CHOOSE d \in {instructions[i] : i \in 1..Len(instructions)} :
    d.filePath = result.data.instructions[n].filePath

(* one of the document's applicable kinds contains the resource's kind or   *)
(* is contained in it, ignoring case                                        *)
RelatedByKind(d, crd) ==
  \E k \in 1..Len(StatedKinds(d)) :
    \/ Includes(ToLowerCase(StatedKinds(d)[k]), ToLowerCase(crd.kind))
    \/ Includes(ToLowerCase(crd.kind), ToLowerCase(StatedKinds(d)[k]))

(* the resource has a category and one of the document's tags contains it   *)
(* or is contained in it, ignoring case                                     *)
RelatedByCategory(d, crd) ==
  /\ Truthy(crd.category)
  /\ \E t \in 1..Len(d.tags) :
       \/ Includes(ToLowerCase(d.tags[t]), ToLowerCase(Val(crd.category)))
       \/ Includes(ToLowerCase(Val(crd.category)), ToLowerCase(d.tags[t]))

(* C30: every guidance document in a DescribeResource result is related to  *)
(* the described resource: one of its applicable kinds substring-matches    *)
(* the resource's kind, or one of its tags overlaps the resource's          *)
(* category; for a resource without a category only a kind match qualifies  *)
(* a document.                                                              *)
C30_GuidanceIsRelated ==
  (IsCall("get-resource-details") /\ result.success) =>
    \A n \in 1..Len(result.data.instructions) :
      \/ RelatedByKind(GuidanceDoc(n), Described)
      \/ RelatedByCategory(GuidanceDoc(n), Described)

====
